---- MODULE Spec2Model ----
(***************************************************************************)
(* A model of the text-formatting engine of careerexplorers                *)
(* (src/src/lib/utils.ts): the thread splitter, the section parser and     *)
(* the pasted-job extractor.                                               *)
(*                                                                         *)
(* Strings are sequences of one-character strings; indices handed to the   *)
(* helpers are 0-based, as in the source, and are converted where a        *)
(* sequence is indexed.                                                    *)
(***************************************************************************)
EXTENDS Integers, Sequences, FiniteSets, TLC

VARIABLES
  premium,      \* process.env.NEXT_PUBLIC_TWITTER_PREMIUM === 'true'
  text,         \* the argument of splitIntoThread
  st_pc,        \* "idle" | "input" | "done"
  st_result,    \* the array splitIntoThread returned
  raw,          \* the argument of parseJobDescription
  trimmed,      \* raw.trim()
  patIdx,       \* the position of the for loop in SECTION_PATTERNS (1-based)
  lastIndex,    \* re.lastIndex of the RegExp of the current pattern
  matches,      \* the matches array
  pj_pc,        \* "idle" | "call" | "scan" | "done" | "out_of_memory"
  pj_result,    \* the string parseJobDescription returned
  pass,         \* 1 for the first call, 2 when its result is parsed again
  firstResult,  \* the result of the first call, kept for the second
  pasted,       \* the argument of parsePastedJob
  pp_pc,        \* "idle" | "call" | "describe" | "done"
  job,          \* the record `result` of parsePastedJob
  gh_job,       \* the job handed to generateJobHashtags
  gh_trending,  \* its trendingHashtags ([] also stands for undefined)
  gh_pc,        \* "idle" | "call" | "done"
  gh_result,    \* the array generateJobHashtags returned
  ap_link,      \* the applyLink handed to formatApplySection
  ap_company,   \* its _company
  ap_source,    \* its sourceUrl ('' also stands for undefined)
  ap_result,    \* per mode (forTelegram): whether called, and the string returned
  pu_again,     \* splitIntoThread has been called a second time with the same text
  pu_second,    \* the array the second call returned
  cs_pc,        \* "idle" | "call" | "done"
  cs_status,    \* the record getCharacterStatus returned
  cm_job,       \* the job handed to formatTwitterMessage or formatTelegramMessage
  cm_channel,   \* "twitter" | "telegram": which of the two is called
  cm_pc,        \* "idle" | "call" | "describe" | "done"
  cm_message,   \* the message returned
  cj_job,       \* the job handed to formatConciseTwitterJob
  cj_trending,  \* its trendingHashtags
  cj_pc,        \* "idle" | "call" | "describe" | "done"
  cj_parts,     \* the locals of the call: header, intro, applySection, hashtagStr, reserved, description
  cj_message,   \* the message returned
  q_pending,    \* the set jobs:today:pending:<today>
  q_posted,     \* the set jobs:posted:all
  q_history,    \* the keys of the hash history:<today>
  q_stored,     \* the ids that have a job:<id> key
  q_last,       \* the last call on the queue: its name and its ids
  au_inv,       \* the invocations of handleAutoPost: position and locals of each
  au_attempts,  \* the calls of the posting clients: <<invocation, job id, platform>>
  au_published, \* those of them that the platform accepted
  sc,           \* the scrape handler inside addJobsForToday: position, jobs, index
  cl_pc,        \* the clear-queue handler: "off" | "idle" | "done"
  tw,           \* postToTwitter: its arguments, its position and its locals
  tw_api,       \* the calls postToTwitter made on the Twitter client, in order
  tw_result,    \* what postToTwitter returned, or that it threw
  po,           \* POST /api/post: the request, the position, hasSuccess
  po_calls,     \* the posting clients the handler called, in order
  po_response   \* the response of the handler

splitVars == <<premium, text, st_pc, st_result>>
parseVars == <<raw, trimmed, patIdx, lastIndex, matches, pj_pc, pj_result, pass, firstResult>>

pasteVars == <<pasted, pp_pc, job>>

tagVars == <<gh_job, gh_trending, gh_pc, gh_result>>

applyVars == <<ap_link, ap_company, ap_source, ap_result>>

againVars == <<pu_again, pu_second>>

statusVars == <<cs_pc, cs_status>>

\* the variables of the formatting functions that are called in one step
composeVars == <<cm_job, cm_channel, cm_pc, cm_message>>

conciseVars == <<cj_job, cj_trending, cj_pc, cj_parts, cj_message>>

queueVars == <<q_pending, q_posted, q_history, q_stored, q_last>>

autoVars == <<au_inv, au_attempts, au_published, sc, cl_pc>>

twitterVars == <<tw, tw_api, tw_result>>

postVars == <<po, po_calls, po_response>>

serverVars == <<queueVars, autoVars, twitterVars, postVars>>

formatVars == <<tagVars, applyVars, againVars, statusVars, composeVars, conciseVars, serverVars>>

vars == <<splitVars, parseVars, pasteVars, formatVars>>

-----------------------------------------------------------------------------
(* Bounds of the model *)

\* run lengths are taken up to Slack characters around the break thresholds
Slack == 1

\* the section parser's input is a concatenation of at most MaxPieces pieces
MaxPieces == 3

\* the matches array holds at most MaxMatches entries before the heap is full
MaxMatches == 3

-----------------------------------------------------------------------------
(* String helpers: the methods of String the source uses *)

\* the characters \s and trim() treat as white space, among those the model uses
WS == {" ", "\n"}

Rep(c, n) == [i \in 1..n |-> c]

Max2(a, b) == IF a >= b THEN a ELSE b
Min2(a, b) == IF a <= b THEN a ELSE b

\* s.slice(a, b), 0 <= a
Slice(s, a, b) == SubSeq(s, a + 1, Min2(b, Len(s)))

\* number of leading white-space characters of s
LeadWs(s) ==
  CHOOSE n \in 0..Len(s) :
    /\ \A j \in 1..n : s[j] \in WS
    /\ (n < Len(s) => s[n + 1] \notin WS)

\* number of trailing white-space characters of s
TrailWs(s) ==
  CHOOSE n \in 0..Len(s) :
    /\ \A j \in (Len(s) - n + 1)..Len(s) : s[j] \in WS
    /\ (n < Len(s) => s[Len(s) - n] \notin WS)

\* s.trim()
Trim(s) ==
  IF LeadWs(s) = Len(s) THEN <<>>
  ELSE SubSeq(s, LeadWs(s) + 1, Len(s) - TrailWs(s))

\* s.startsWith(pat, i)
StartsWithAt(s, pat, i) ==
  /\ i >= 0
  /\ i + Len(pat) <= Len(s)
  /\ \A j \in 1..Len(pat) : s[i + j] = pat[j]

\* s.lastIndexOf(pat, from): the largest index <= from where pat starts, or -1
LastIndexOf(s, pat, from) ==
  CHOOSE r \in
    { IF hits = {} THEN -1 ELSE CHOOSE i \in hits : \A j \in hits : j <= i :
        hits \in { {i \in 0..Min2(from, Len(s) - Len(pat)) : StartsWithAt(s, pat, i)} } } : TRUE

DigitChars == <<"0", "1", "2", "3", "4", "5", "6", "7", "8", "9">>
IsDigit(c) == \E d \in 1..10 : DigitChars[d] = c

\* `${n}` of a non-negative integer
RECURSIVE ToDigits(_)
ToDigits(n) ==
  IF n < 10 THEN <<DigitChars[n + 1]>>
  ELSE ToDigits(n \div 10) \o <<DigitChars[(n % 10) + 1]>>

\* Math.ceil(a / b) for a >= 0, b > 0
CeilDiv(a, b) == (a + b - 1) \div b

-----------------------------------------------------------------------------
(* Character limits *)

X_CHAR_LIMIT == 280
X_PREMIUM_CHAR_LIMIT == 25000
X_THREAD_LIMIT == 270
X_PREMIUM_THREAD_LIMIT == 24990

getXCharLimit == IF premium THEN X_PREMIUM_CHAR_LIMIT ELSE X_CHAR_LIMIT

getXThreadLimit == IF premium THEN X_PREMIUM_THREAD_LIMIT ELSE X_THREAD_LIMIT

-----------------------------------------------------------------------------
(* splitIntoThread *)

\* the suffix without the space before it
BareSuffix(k, n) == <<"(">> \o ToDigits(k) \o <<"/">> \o ToDigits(n) \o <<")">>

\* ` (${chunkNumber}/${total})`
ThreadSuffix(k, n) == <<" ", "(">> \o ToDigits(k) \o <<"/">> \o ToDigits(n) \o <<")">>

\* Math.ceil(text.length / threadLimit)
EstimatedChunks(t) == CeilDiv(Len(t), getXThreadLimit)

\* breakPoint = sentenceEnd + 1
SentenceBreak(sentenceEnd) == sentenceEnd + 1

\* the break point of one loop iteration: sentence end, word boundary or hard cut
BreakPoint(rem, maxLength) ==
  LET sentenceEnd == LastIndexOf(rem, <<".", " ">>, maxLength)
      wordBreak == LastIndexOf(rem, <<" ">>, maxLength)
  IN IF 2 * sentenceEnd > maxLength THEN SentenceBreak(sentenceEnd)
     ELSE IF 2 * wordBreak > maxLength THEN wordBreak
     ELSE maxLength

\* remaining = remaining.slice(breakPoint).trim()
RestDropsChar(rem, breakPoint) == Trim(Slice(rem, breakPoint + 1, Len(rem)))
RestAfterBreak(rem, breakPoint) == Trim(Slice(rem, breakPoint, Len(rem)))

\* the while loop: the chunks pushed from state (chunks, remaining) on
RECURSIVE SplitLoop(_, _, _)
SplitLoop(chunks, rem, est) ==
  IF Len(rem) = 0 THEN chunks
  ELSE
    LET chunkNumber == Len(chunks) + 1
        suffix == ThreadSuffix(chunkNumber, est)
        maxLength == getXCharLimit - Len(suffix)
    IN IF Len(rem) <= maxLength
       THEN IF Len(rem) <= getXCharLimit /\ Len(chunks) = 0
            THEN Append(chunks, rem)
            ELSE Append(chunks, rem \o suffix)
       ELSE LET breakPoint == BreakPoint(rem, maxLength)
                chunk == Trim(Slice(rem, 0, breakPoint))
            IN SplitLoop(Append(chunks, chunk \o suffix),
                         RestAfterBreak(rem, breakPoint), est)

\* where /\s*\(k\/\d+\)$/ matches in chunk: the 0-based start of the match, or -1.
\* The match must end at the end of the string, so the ")" is the last
\* character, the digits before it run back to the "/", the digits of k stand
\* before the "/" and "(" before them; the leftmost match then takes all the
\* white space that stands before the "(".
OldSuffixIndex(chunk, k) ==
  LET n == Len(chunk)
      kd == ToDigits(k)
      slashes == {p \in 1..n : /\ chunk[p] = "/"
                               /\ p + 1 <= n - 1
                               /\ \A j \in (p + 1)..(n - 1) : IsDigit(chunk[j])}
  IN IF n = 0 \/ chunk[n] # ")" \/ slashes = {} THEN -1
     ELSE LET p == CHOOSE q \in slashes : TRUE
              open == p - Len(kd) - 1
          IN IF open >= 1 /\ chunk[open] = "(" /\ StartsWithAt(chunk, kd, open)
             THEN (open - 1) - TrailWs(SubSeq(chunk, 1, open - 1))
             ELSE -1

\* chunk.replace(oldSuffix, ` (${index + 1}/${chunks.length})`)
KeepEstimate(chunk, k, total) == chunk
RewriteSuffix(chunk, k, total) ==
  LET at == OldSuffixIndex(chunk, k)
  IN IF at < 0 THEN chunk
     ELSE SubSeq(chunk, 1, at) \o ThreadSuffix(k, total)

\* the early return of splitIntoThread
ShortTextTrimmed(t) == <<Trim(t)>>
ShortText(t) == <<t>>

splitIntoThread(t) ==
  IF Len(t) <= getXCharLimit THEN ShortText(t)
  ELSE LET chunks == SplitLoop(<<>>, t, EstimatedChunks(t))
       IN [i \in 1..Len(chunks) |-> RewriteSuffix(chunks[i], i, Len(chunks))]

-----------------------------------------------------------------------------
(* Inputs of the thread splitter *)

\* the longest content a chunk with a one-digit suffix can hold
FullLen(limit) == limit - 6

RunLens(limit) ==
  {1} \cup {FullLen(limit) \div 2 + 2 + d : d \in 0..Slack}
      \cup {FullLen(limit) - d : d \in 0..Slack}

Seps == { <<>>, <<" ">>, <<".", " ">>, <<" ", "(", "1", "/", "9", ")", " ">> }
Pads == { <<>>, <<" ">> }

\* runs of letters joined by separators, with optional padding at both ends
TextsOf(limit, pads, lens3) ==
  { lead \o Rep("a", n1) \o s1 \o Rep("b", n2) \o s2 \o Rep("c", n3) \o trail :
      lead \in pads, trail \in pads, s1 \in Seps, s2 \in Seps,
      n1 \in RunLens(limit), n2 \in RunLens(limit) \cup {0}, n3 \in lens3 }

\* 300 times the letter A: a text without a place to break at
UnbrokenText == Rep("A", 300)

\* three runs at the standard limit and the unbroken text; two runs, unpadded,
\* at the premium limit
Texts(isPremium) ==
  IF isPremium THEN TextsOf(X_PREMIUM_CHAR_LIMIT, {<<>>}, {0})
  ELSE TextsOf(X_CHAR_LIMIT, Pads, RunLens(X_CHAR_LIMIT) \cup {0}) \cup {UnbrokenText}

-----------------------------------------------------------------------------
(* The thread splitter as a state machine *)

\* the record `result` as it is initialised, with the fields the model follows
EmptyJob ==
  [title |-> <<>>, company |-> <<>>, location |-> <<>>, jobType |-> <<>>,
   description |-> <<>>, applyLink |-> <<>>, suggestedHashtags |-> <<>>]

IdlePaste ==
  /\ pasted = <<>>
  /\ pp_pc = "idle"
  /\ job = EmptyJob

\* a job of which generateJobHashtags reads the title, the location and the type
NoJob == [title |-> <<>>, location |-> <<>>, jobType |-> <<>>]

IdleTags ==
  /\ gh_job = NoJob
  /\ gh_trending = <<>>
  /\ gh_pc = "idle"
  /\ gh_result = <<>>

IdleApply ==
  /\ ap_link = <<>>
  /\ ap_company = <<>>
  /\ ap_source = <<>>
  /\ ap_result = [m \in BOOLEAN |-> [called |-> FALSE, value |-> <<>>]]

IdleAgain ==
  /\ pu_again = FALSE
  /\ pu_second = <<>>

\* the record getCharacterStatus returns, before any call
NoStatus ==
  [count |-> 0, remaining |-> 0, isOverLimit |-> FALSE, needsThread |-> FALSE,
   threadCount |-> 0, charLimit |-> 0]

IdleStatus ==
  /\ cs_pc = "idle"
  /\ cs_status = NoStatus

\* a JobData with nothing in it
NoJobData ==
  [title |-> <<>>, company |-> <<>>, location |-> <<>>, jobType |-> <<>>,
   description |-> <<>>, applyLink |-> <<>>, hashtags |-> <<>>]

IdleCompose ==
  /\ cm_job = NoJobData
  /\ cm_channel = "twitter"
  /\ cm_pc = "idle"
  /\ cm_message = <<>>

NoConciseJob ==
  [title |-> <<>>, company |-> <<>>, location |-> <<>>, jobType |-> <<>>,
   description |-> <<>>, applyUrl |-> <<>>, sourceUrl |-> <<>>]

NoParts ==
  [header |-> <<>>, intro |-> <<>>, applySection |-> <<>>, hashtagStr |-> <<>>,
   reserved |-> 0, description |-> <<>>]

IdleConcise ==
  /\ cj_job = NoConciseJob
  /\ cj_trending = <<>>
  /\ cj_pc = "idle"
  /\ cj_parts = NoParts
  /\ cj_message = <<>>

NoCall == [op |-> "none", ids |-> <<>>]

\* the store before any key is written
IdleQueue ==
  /\ q_pending = {}
  /\ q_posted = {}
  /\ q_history = {}
  /\ q_stored = {}
  /\ q_last = NoCall

Invocations == {1, 2}

\* an invocation that was not requested
NoInvocation ==
  [pc |-> "off", dryRun |-> FALSE, postable |-> <<>>, k |-> 0, twitter |-> "none",
   telegram |-> "none", postedJobIds |-> <<>>, m |-> 0, response |-> "none"]

\* a handler that was not requested
NoScrape == [pc |-> "off", jobs |-> <<>>, i |-> 0]

IdleAuto ==
  /\ au_inv = [i \in Invocations |-> NoInvocation]
  /\ au_attempts = {}
  /\ au_published = {}
  /\ sc = NoScrape
  /\ cl_pc = "off"

\* postToTwitter was not called
NoTwitterCall ==
  [pc |-> "off", version |-> "part_005", message |-> <<>>, imageBase64 |-> FALSE,
   chunks |-> <<>>, i |-> 0, mediaId |-> 0, previousTweetId |-> 0, tweetIds |-> <<>>]

NotReturned == [returned |-> FALSE]

IdleTwitter ==
  /\ tw = NoTwitterCall
  /\ tw_api = <<>>
  /\ tw_result = NotReturned

\* no request on POST /api/post
NoPostRequest ==
  [pc |-> "off", job |-> [title |-> <<>>, description |-> <<>>, applyLink |-> <<>>],
   platforms |-> {}, hasSuccess |-> FALSE]

NoResponse == [status |-> 0]

IdlePost ==
  /\ po = NoPostRequest
  /\ po_calls = <<>>
  /\ po_response = NoResponse

IdleServer == IdleQueue /\ IdleAuto /\ IdleTwitter /\ IdlePost

IdleFormat ==
  IdleTags /\ IdleApply /\ IdleAgain /\ IdleStatus /\ IdleCompose /\ IdleConcise /\ IdleServer

IdleParse ==
  /\ raw = <<>>
  /\ trimmed = <<>>
  /\ patIdx = 1
  /\ lastIndex = 0
  /\ matches = <<>>
  /\ pj_pc = "idle"
  /\ pj_result = <<>>
  /\ pass = 1
  /\ firstResult = <<>>

InitSplit ==
  /\ IdleParse
  /\ IdlePaste
  /\ IdleFormat
  /\ premium \in BOOLEAN
  /\ text \in Texts(premium)
  /\ st_pc = "input"
  /\ st_result = <<>>

CallSplitIntoThread ==
  /\ st_pc = "input"
  /\ st_result' = splitIntoThread(text)
  /\ st_pc' = "done"
  /\ UNCHANGED <<premium, text>>
  /\ UNCHANGED <<parseVars, pasteVars, formatVars>>

NextSplit == CallSplitIntoThread

SpecSplit == InitSplit /\ [][NextSplit]_vars

-----------------------------------------------------------------------------
(* Regular expressions of the section parser *)

UpperChars ==
  <<"A", "B", "C", "D", "E", "F", "G", "H", "I", "J", "K", "L", "M", "N", "O", "P", "Q", "R", "S", "T", "U", "V", "W", "X", "Y", "Z">>

LowerChars ==
  <<"a", "b", "c", "d", "e", "f", "g", "h", "i", "j", "k", "l", "m", "n", "o", "p", "q", "r", "s", "t", "u", "v", "w", "x", "y", "z">>


\* the case folding of the i flag, on the letters A-Z
Lower(c) ==
  IF \E k \in 1..26 : UpperChars[k] = c
  THEN LowerChars[CHOOSE k \in 1..26 : UpperChars[k] = c]
  ELSE c

\* s.toLowerCase(), on the letters A-Z
RECURSIVE LowerAll(_)
LowerAll(t) == IF t = <<>> THEN <<>> ELSE <<Lower(Head(t))>> \o LowerAll(Tail(t))

\* a pattern element: a literal word, \s+ or \s*
L(w) == [kind |-> "lit", word |-> w, min |-> 0]
S1 == [kind |-> "ws", word |-> <<>>, min |-> 1]
S0 == [kind |-> "ws", word |-> <<>>, min |-> 0]

\* the number of white-space characters of s from 0-based position pos on
WsRun(s, pos) ==
  CHOOSE n \in 0..(Len(s) - pos) :
    /\ \A j \in 1..n : s[pos + j] \in WS
    /\ (pos + n < Len(s) => s[pos + n + 1] \notin WS)

\* a literal of the pattern at pos, compared case-insensitively
LitAt(s, w, pos) ==
  /\ pos + Len(w) <= Len(s)
  /\ \A j \in 1..Len(w) : Lower(s[pos + j]) = w[j]

\* the elements i.. of one alternative matched from pos: the end position, or -1.
\* \s+ and \s* are greedy and every literal starts with a non-space character,
\* so the longest run of white space is the only one that can be followed by it.
RECURSIVE MatchElems(_, _, _, _)
MatchElems(s, pos, elems, i) ==
  IF i > Len(elems) THEN pos
  ELSE IF elems[i].kind = "lit"
       THEN IF LitAt(s, elems[i].word, pos)
            THEN MatchElems(s, pos + Len(elems[i].word), elems, i + 1)
            ELSE -1
       ELSE CHOOSE end \in
              { IF n >= elems[i].min THEN MatchElems(s, pos + n, elems, i + 1) ELSE -1 :
                  n \in {WsRun(s, pos)} } : TRUE

\* the alternation (?:A1|A2|...) at pos: the end of the first alternative that
\* matches, or -1 (what follows the group can match the empty string, so the
\* first alternative that matches is the one the engine keeps)
FirstAlt(s, pos, alts) ==
  IF \E a \in 1..Len(alts) : MatchElems(s, pos, alts[a], 1) >= 0
  THEN CHOOSE end \in
         { MatchElems(s, pos, alts[a], 1) :
             a \in { b \in 1..Len(alts) :
                       /\ MatchElems(s, pos, alts[b], 1) >= 0
                       /\ \A c \in 1..(b - 1) : MatchElems(s, pos, alts[c], 1) < 0 } } :
         TRUE
  ELSE -1

\* the tail \s*:?\s* from pos: the end position
HeadingTail(s, pos) ==
  CHOOSE end \in
    { (IF p1 < Len(s) /\ s[p1 + 1] = ":" THEN p1 + 1 ELSE p1)
        + WsRun(s, IF p1 < Len(s) /\ s[p1 + 1] = ":" THEN p1 + 1 ELSE p1) :
        p1 \in {pos + WsRun(s, pos)} } : TRUE

\* ^ under the m flag: the start of the text or the position after a newline
LineStart(s, pos) == pos = 0 \/ s[pos] = "\n"

\* the length of the match of ^(?:alts)\s*:?\s* at pos, or -1
HeadingAt(s, pos, alts) ==
  IF LineStart(s, pos)
  THEN CHOOSE len \in
         { IF end >= 0 THEN HeadingTail(s, end) - pos ELSE -1 :
             end \in {FirstAlt(s, pos, alts)} } : TRUE
  ELSE -1

\* about\s+(?:the\s+)?role|overview|summary|introduction|the\s+role|role\s+summary
ABOUT_ALTS ==
  << <<L(<<"a", "b", "o", "u", "t">>), S1, L(<<"t", "h", "e">>), S1, L(<<"r", "o", "l", "e">>)>>,
     <<L(<<"a", "b", "o", "u", "t">>), S1, L(<<"r", "o", "l", "e">>)>>,
     <<L(<<"o", "v", "e", "r", "v", "i", "e", "w">>)>>,
     <<L(<<"s", "u", "m", "m", "a", "r", "y">>)>>,
     <<L(<<"i", "n", "t", "r", "o", "d", "u", "c", "t", "i", "o", "n">>)>>,
     <<L(<<"t", "h", "e">>), S1, L(<<"r", "o", "l", "e">>)>>,
     <<L(<<"r", "o", "l", "e">>), S1, L(<<"s", "u", "m", "m", "a", "r", "y">>)>> >>

\* responsibilities|key\s+responsibilities|what\s+you(?:'ll|\s+will)?\s+do|duties|key\s+duties|your\s+role
RESPONSIBILITIES_ALTS ==
  << <<L(<<"r", "e", "s", "p", "o", "n", "s", "i", "b", "i", "l", "i", "t", "i", "e", "s">>)>>,
     <<L(<<"k", "e", "y">>), S1, L(<<"r", "e", "s", "p", "o", "n", "s", "i", "b", "i", "l", "i", "t", "i", "e", "s">>)>>,
     <<L(<<"w", "h", "a", "t">>), S1, L(<<"y", "o", "u", "'", "l", "l">>), S1, L(<<"d", "o">>)>>,
     <<L(<<"w", "h", "a", "t">>), S1, L(<<"y", "o", "u">>), S1, L(<<"w", "i", "l", "l">>), S1, L(<<"d", "o">>)>>,
     <<L(<<"w", "h", "a", "t">>), S1, L(<<"y", "o", "u">>), S1, L(<<"d", "o">>)>>,
     <<L(<<"d", "u", "t", "i", "e", "s">>)>>,
     <<L(<<"k", "e", "y">>), S1, L(<<"d", "u", "t", "i", "e", "s">>)>>,
     <<L(<<"y", "o", "u", "r">>), S1, L(<<"r", "o", "l", "e">>)>> >>

\* requirements|qualifications|qualification\s*(?:&|and)\s*experience|what\s+we(?:'re|\s+are)?\s+looking\s+for|must\s+have|must\s+haves|skills\s+required|you\s+have
REQUIREMENTS_ALTS ==
  << <<L(<<"r", "e", "q", "u", "i", "r", "e", "m", "e", "n", "t", "s">>)>>,
     <<L(<<"q", "u", "a", "l", "i", "f", "i", "c", "a", "t", "i", "o", "n", "s">>)>>,
     <<L(<<"q", "u", "a", "l", "i", "f", "i", "c", "a", "t", "i", "o", "n">>), S0, L(<<"&">>), S0, L(<<"e", "x", "p", "e", "r", "i", "e", "n", "c", "e">>)>>,
     <<L(<<"q", "u", "a", "l", "i", "f", "i", "c", "a", "t", "i", "o", "n">>), S0, L(<<"a", "n", "d">>), S0, L(<<"e", "x", "p", "e", "r", "i", "e", "n", "c", "e">>)>>,
     <<L(<<"w", "h", "a", "t">>), S1, L(<<"w", "e", "'", "r", "e">>), S1, L(<<"l", "o", "o", "k", "i", "n", "g">>), S1, L(<<"f", "o", "r">>)>>,
     <<L(<<"w", "h", "a", "t">>), S1, L(<<"w", "e">>), S1, L(<<"a", "r", "e">>), S1, L(<<"l", "o", "o", "k", "i", "n", "g">>), S1, L(<<"f", "o", "r">>)>>,
     <<L(<<"w", "h", "a", "t">>), S1, L(<<"w", "e">>), S1, L(<<"l", "o", "o", "k", "i", "n", "g">>), S1, L(<<"f", "o", "r">>)>>,
     <<L(<<"m", "u", "s", "t">>), S1, L(<<"h", "a", "v", "e">>)>>,
     <<L(<<"m", "u", "s", "t">>), S1, L(<<"h", "a", "v", "e", "s">>)>>,
     <<L(<<"s", "k", "i", "l", "l", "s">>), S1, L(<<"r", "e", "q", "u", "i", "r", "e", "d">>)>>,
     <<L(<<"y", "o", "u">>), S1, L(<<"h", "a", "v", "e">>)>> >>

\* benefits|perks|what\s+we\s+offer|compensation|we\s+offer|our\s+benefits
BENEFITS_ALTS ==
  << <<L(<<"b", "e", "n", "e", "f", "i", "t", "s">>)>>,
     <<L(<<"p", "e", "r", "k", "s">>)>>,
     <<L(<<"w", "h", "a", "t">>), S1, L(<<"w", "e">>), S1, L(<<"o", "f", "f", "e", "r">>)>>,
     <<L(<<"c", "o", "m", "p", "e", "n", "s", "a", "t", "i", "o", "n">>)>>,
     <<L(<<"w", "e">>), S1, L(<<"o", "f", "f", "e", "r">>)>>,
     <<L(<<"o", "u", "r">>), S1, L(<<"b", "e", "n", "e", "f", "i", "t", "s">>)>> >>

sectionLabels ==
  [ about |-> <<"A", "b", "o", "u", "t", " ", "t", "h", "e", " ", "r", "o", "l", "e">>,
    responsibilities |-> <<"R", "e", "s", "p", "o", "n", "s", "i", "b", "i", "l", "i", "t", "i", "e", "s">>,
    requirements |-> <<"R", "e", "q", "u", "i", "r", "e", "m", "e", "n", "t", "s">>,
    benefits |-> <<"B", "e", "n", "e", "f", "i", "t", "s">>,
    other |-> <<"O", "t", "h", "e", "r">> ]


\* /.../im: the flags every pattern of SECTION_PATTERNS carries; there is no g
SECTION_FLAGS == [global |-> FALSE, ignoreCase |-> TRUE, multiline |-> TRUE]

SECTION_ORDER == <<"about", "responsibilities", "requirements", "benefits", "other">>

SECTION_PATTERNS ==
  << [key |-> "about", alts |-> ABOUT_ALTS],
     [key |-> "responsibilities", alts |-> RESPONSIBILITIES_ALTS],
     [key |-> "requirements", alts |-> REQUIREMENTS_ALTS],
     [key |-> "benefits", alts |-> BENEFITS_ALTS] >>

NoMatch == [index |-> -1, length |-> 0]

\* where re.exec(s) starts to search: at lastIndex under the g flag, else at 0
ExecStart(flags, lastIdx) == IF flags.global THEN lastIdx ELSE 0

\* the positions at or after from where the pattern matches
ExecHits(alts, s, from) == {p \in from..Len(s) : HeadingAt(s, p, alts) >= 0}

\* re.exec(s): the leftmost match at or after the start position, or NoMatch
RegExpExec(alts, flags, s, lastIdx) ==
  IF ExecHits(alts, s, ExecStart(flags, lastIdx)) = {} THEN NoMatch
  ELSE CHOOSE m \in
         { [index |-> p, length |-> HeadingAt(s, p, alts)] :
             p \in { q \in ExecHits(alts, s, ExecStart(flags, lastIdx)) :
                       \A r \in ExecHits(alts, s, ExecStart(flags, lastIdx)) : q <= r } } :
         TRUE

\* re.lastIndex after re.exec(s) returned m: only the g flag moves it
ExecLastIndex(flags, lastIdx, m) ==
  IF flags.global
  THEN IF m = NoMatch THEN 0 ELSE m.index + m.length
  ELSE lastIdx

-----------------------------------------------------------------------------
(* parseJobDescription: the code after the match-collecting loop *)

\* matches.sort((a, b) => a.index - b.index): a stable insertion sort
RECURSIVE InsertByIndex(_, _)
InsertByIndex(sorted, m) ==
  IF sorted = <<>> THEN <<m>>
  ELSE IF sorted[Len(sorted)].index <= m.index THEN Append(sorted, m)
       ELSE Append(InsertByIndex(SubSeq(sorted, 1, Len(sorted) - 1), m),
                   sorted[Len(sorted)])

RECURSIVE SortByIndex(_)
SortByIndex(ms) ==
  IF ms = <<>> THEN <<>>
  ELSE InsertByIndex(SortByIndex(SubSeq(ms, 1, Len(ms) - 1)), ms[Len(ms)])

\* m.index < end && m.index + m.length > start
Overlaps(m, u) == m.index < u.index + u.length /\ m.index + m.length > u.index

\* the matches kept of sorted[i..]: one that overlaps a kept one is dropped
RECURSIVE UniqueFrom(_, _, _)
UniqueFrom(sorted, i, kept) ==
  IF i > Len(sorted) THEN kept
  ELSE IF \E k \in 1..Len(kept) : Overlaps(sorted[i], kept[k])
       THEN UniqueFrom(sorted, i + 1, kept)
       ELSE UniqueFrom(sorted, i + 1, Append(kept, sorted[i]))

UniqueMatches(ms) == UniqueFrom(SortByIndex(ms), 1, <<>>)

\* trimmed.slice(start, end).trim() for the i-th kept match
SectionContent(t, um, i) ==
  LET start == um[i].index + um[i].length
      end == IF i < Len(um) THEN um[i + 1].index ELSE Len(t)
  IN Trim(Slice(t, start, end))

\* sections[key] after the loop over the first n kept matches
RECURSIVE ContentsOf(_, _, _, _)
ContentsOf(t, um, key, n) ==
  IF n = 0 THEN <<>>
  ELSE LET before == ContentsOf(t, um, key, n - 1)
       IN IF um[n].key = key /\ SectionContent(t, um, n) # <<>>
          THEN Append(before, SectionContent(t, um, n))
          ELSE before

\* the text before the first kept heading, pushed to sections.other
BeforeFirst(t, um) ==
  IF um[1].index > 0 /\ Trim(Slice(t, 0, um[1].index)) # <<>>
  THEN <<Trim(Slice(t, 0, um[1].index))>>
  ELSE <<>>

Sections(t, um) ==
  [key \in {"about", "responsibilities", "requirements", "benefits", "other"} |->
     IF key = "other" THEN ContentsOf(t, um, key, Len(um)) \o BeforeFirst(t, um)
     ELSE ContentsOf(t, um, key, Len(um))]

\* parts.join(sep)
RECURSIVE Join(_, _)
Join(parts, sep) ==
  IF parts = <<>> THEN <<>>
  ELSE IF Len(parts) = 1 THEN parts[1]
       ELSE Join(SubSeq(parts, 1, Len(parts) - 1), sep) \o sep \o parts[Len(parts)]

BlankLine == <<"\n", "\n">>

\* the parts array built over the first n keys of SECTION_ORDER
RECURSIVE PartsUpTo(_, _)
PartsUpTo(sections, n) ==
  IF n = 0 THEN <<>>
  ELSE LET key == SECTION_ORDER[n]
           contents == sections[key]
       IN IF contents = <<>> THEN PartsUpTo(sections, n - 1)
          ELSE IF key = "other"
               THEN Append(PartsUpTo(sections, n - 1), Join(contents, BlankLine))
               ELSE Append(PartsUpTo(sections, n - 1),
                           sectionLabels[key] \o <<":", "\n">> \o Join(contents, BlankLine))

\* s.replace(/\n{3,}/g, '\n\n'): of a run of newlines only the first two stay
RECURSIVE CollapseRange(_, _, _)
CollapseRange(s, a, b) ==
  IF a > b THEN <<>>
  ELSE IF a = b
       THEN IF a >= 3 /\ s[a] = "\n" /\ s[a - 1] = "\n" /\ s[a - 2] = "\n"
            THEN <<>> ELSE <<s[a]>>
  ELSE CollapseRange(s, a, (a + b) \div 2) \o CollapseRange(s, (a + b) \div 2 + 1, b)

CollapseNewlines(s) ==
  CHOOSE out \in { CollapseRange(t, 1, Len(t)) : t \in {s} } : TRUE

\* the result when at least one heading was matched
RenderSections(rawText, t, ms) ==
  LET um == UniqueMatches(ms)
      result == Trim(CollapseNewlines(Join(PartsUpTo(Sections(t, um), 5), BlankLine)))
  IN IF result # <<>> THEN result ELSE rawText

\* if (matches.length === 0) return raw
NoSectionTrimmed(rawText, t) == t
NoSectionResult(rawText, t) == rawText

\* the return value once the loop over SECTION_PATTERNS has ended
ParseResult(rawText, t, ms) ==
  IF Len(ms) = 0 THEN NoSectionResult(rawText, t)
  ELSE RenderSections(rawText, t, ms)

-----------------------------------------------------------------------------
(* Inputs of the section parser *)

Pieces ==
  { <<"O", "v", "e", "r", "v", "i", "e", "w", ":">>,
    <<"p", "e", "r", "k", "s">>,
    <<"R", "e", "q", "u", "i", "r", "e", "m", "e", "n", "t", "s">>,
    <<"x">>,
    <<" ">>,
    <<"\n">>,
    <<"y", ".">> }


\* the concatenations of at most n pieces
RECURSIVE PieceTexts(_)
PieceTexts(n) ==
  IF n = 0 THEN {<<>>}
  ELSE PieceTexts(n - 1) \cup {t \o p : t \in PieceTexts(n - 1), p \in Pieces}

-----------------------------------------------------------------------------
(* parseJobDescription as a state machine *)

InitParseVars ==
  /\ raw \in PieceTexts(MaxPieces)
  /\ trimmed = <<>>
  /\ patIdx = 1
  /\ lastIndex = 0
  /\ matches = <<>>
  /\ pj_pc = "call"
  /\ pj_result = <<>>
  /\ pass = 1
  /\ firstResult = <<>>

\* lines 367-380: trim, the early return, the empty match list
ParseEnter ==
  /\ pj_pc = "call"
  /\ trimmed' = Trim(raw)
  /\ IF Trim(raw) = <<>>
     THEN /\ pj_pc' = "done"
          /\ pj_result' = raw
     ELSE /\ pj_pc' = "scan"
          /\ pj_result' = pj_result
  /\ patIdx' = 1
  /\ lastIndex' = 0
  /\ matches' = <<>>
  /\ UNCHANGED <<raw, pass, firstResult>>

\* one evaluation of the while condition `(m = re.exec(trimmed)) !== null` and,
\* when it holds, the push; when it fails, the for loop moves to the next
\* pattern and its fresh RegExp
ExecStep ==
  /\ pj_pc = "scan"
  /\ patIdx <= Len(SECTION_PATTERNS)
  /\ \E m \in {RegExpExec(SECTION_PATTERNS[patIdx].alts, SECTION_FLAGS, trimmed, lastIndex)} :
        IF m # NoMatch
        THEN /\ Len(matches) < MaxMatches
             /\ matches' = Append(matches, [key |-> SECTION_PATTERNS[patIdx].key,
                                            index |-> m.index, length |-> m.length])
             /\ lastIndex' = ExecLastIndex(SECTION_FLAGS, lastIndex, m)
             /\ patIdx' = patIdx
        ELSE /\ matches' = matches
             /\ lastIndex' = 0
             /\ patIdx' = patIdx + 1
  /\ UNCHANGED <<raw, trimmed, pj_pc, pj_result, pass, firstResult>>

\* the matches array has outgrown the heap: the engine aborts the call
HeapExhausted ==
  /\ pj_pc = "scan"
  /\ patIdx <= Len(SECTION_PATTERNS)
  /\ Len(matches) >= MaxMatches
  /\ RegExpExec(SECTION_PATTERNS[patIdx].alts, SECTION_FLAGS, trimmed, lastIndex) # NoMatch
  /\ pj_pc' = "out_of_memory"
  /\ UNCHANGED <<raw, trimmed, patIdx, lastIndex, matches, pj_result, pass, firstResult>>

\* lines 390-442: the code after the loops, up to the return
ParseReturn ==
  /\ pj_pc = "scan"
  /\ patIdx > Len(SECTION_PATTERNS)
  /\ pj_result' = ParseResult(raw, trimmed, matches)
  /\ pj_pc' = "done"
  /\ UNCHANGED <<raw, trimmed, patIdx, lastIndex, matches, pass, firstResult>>

\* JobForm's format button pressed again: the result is parsed once more
Reparse ==
  /\ pj_pc = "done"
  /\ pass = 1
  /\ firstResult' = pj_result
  /\ raw' = pj_result
  /\ pass' = 2
  /\ pj_pc' = "call"
  /\ UNCHANGED <<trimmed, patIdx, lastIndex, matches, pj_result>>

IdleSplit ==
  /\ premium = FALSE
  /\ text = <<>>
  /\ st_pc = "idle"
  /\ st_result = <<>>

InitParse ==
  /\ InitParseVars
  /\ IdleSplit
  /\ IdlePaste
  /\ IdleFormat

NextParse ==
  \/ ParseEnter /\ UNCHANGED <<splitVars, pasteVars, formatVars>>
  \/ ExecStep /\ UNCHANGED <<splitVars, pasteVars, formatVars>>
  \/ HeapExhausted /\ UNCHANGED <<splitVars, pasteVars, formatVars>>
  \/ ParseReturn /\ UNCHANGED <<splitVars, pasteVars, formatVars>>
  \/ Reparse /\ UNCHANGED <<splitVars, pasteVars, formatVars>>

SpecParse == InitParse /\ [][NextParse]_vars

\* a call of a synchronous function runs on until it returns or the engine aborts it
FairSpecParse == SpecParse /\ WF_vars(NextParse)

-----------------------------------------------------------------------------
(* Regular expressions of parsePastedJob *)

\* \w, on the characters the model uses
IsWordChar(c) ==
  \/ \E k \in 1..26 : UpperChars[k] = c \/ LowerChars[k] = c
  \/ IsDigit(c)
  \/ c = "_"

\* \b at 0-based position pos
WordBoundary(s, pos) ==
  (pos > 0 /\ IsWordChar(s[pos])) # (pos < Len(s) /\ IsWordChar(s[pos + 1]))

\* JOB_TYPES with each '-' replaced by [- ]?, in the order of the alternation
JOB_TYPE_ALTS ==
  << <<L(<<"f", "u", "l", "l", "-", "t", "i", "m", "e">>)>>,
     <<L(<<"f", "u", "l", "l", " ", "t", "i", "m", "e">>)>>,
     <<L(<<"f", "u", "l", "l", "t", "i", "m", "e">>)>>,
     <<L(<<"p", "a", "r", "t", "-", "t", "i", "m", "e">>)>>,
     <<L(<<"p", "a", "r", "t", " ", "t", "i", "m", "e">>)>>,
     <<L(<<"p", "a", "r", "t", "t", "i", "m", "e">>)>>,
     <<L(<<"c", "o", "n", "t", "r", "a", "c", "t">>)>>,
     <<L(<<"f", "r", "e", "e", "l", "a", "n", "c", "e">>)>>,
     <<L(<<"i", "n", "t", "e", "r", "n", "s", "h", "i", "p">>)>>,
     <<L(<<"r", "e", "m", "o", "t", "e">>)>>,
     <<L(<<"h", "y", "b", "r", "i", "d">>)>> >>

\* the normalization of typeMatch[0], by the alternative that matched
JOB_TYPE_NAMES ==
  << <<"F", "u", "l", "l", "-", "t", "i", "m", "e">>, <<"F", "u", "l", "l", "-", "t", "i", "m", "e">>, <<"F", "u", "l", "l", "-", "t", "i", "m", "e">>, <<"P", "a", "r", "t", "-", "t", "i", "m", "e">>, <<"P", "a", "r", "t", "-", "t", "i", "m", "e">>, <<"P", "a", "r", "t", "-", "t", "i", "m", "e">>, <<"C", "o", "n", "t", "r", "a", "c", "t">>, <<"F", "r", "e", "e", "l", "a", "n", "c", "e">>, <<"I", "n", "t", "e", "r", "n", "s", "h", "i", "p">>, <<"R", "e", "m", "o", "t", "e">>, <<"H", "y", "b", "r", "i", "d">> >>

\* the alternatives of JOB_TYPE_ALTS that match at pos between two \b
JobTypeAltsAt(s, pos) ==
  { a \in 1..Len(JOB_TYPE_ALTS) :
      /\ WordBoundary(s, pos)
      /\ MatchElems(s, pos, JOB_TYPE_ALTS[a], 1) >= 0
      /\ WordBoundary(s, MatchElems(s, pos, JOB_TYPE_ALTS[a], 1)) }

\* result.jobType: the first match of typeRegex, normalized, or ''
ExtractJobType(s) ==
  IF \A p \in 0..Len(s) : JobTypeAltsAt(s, p) = {} THEN <<>>
  ELSE CHOOSE name \in
         { JOB_TYPE_NAMES[CHOOSE a \in JobTypeAltsAt(s, p) :
                            \A b \in JobTypeAltsAt(s, p) : a <= b] :
             p \in { q \in 0..Len(s) :
                       /\ JobTypeAltsAt(s, q) # {}
                       /\ \A r \in 0..(q - 1) : JobTypeAltsAt(s, r) = {} } } : TRUE

\* location|based\s+in|work\s+from|office
LOCATION_LABEL_ALTS ==
  << <<L(<<"l", "o", "c", "a", "t", "i", "o", "n">>)>>,
     <<L(<<"b", "a", "s", "e", "d">>), S1, L(<<"i", "n">>)>>,
     <<L(<<"w", "o", "r", "k">>), S1, L(<<"f", "r", "o", "m">>)>>,
     <<L(<<"o", "f", "f", "i", "c", "e">>)>> >>

\* remote|hybrid|onsite|in-office
LOCATION_WORD_ALTS ==
  << <<L(<<"r", "e", "m", "o", "t", "e">>)>>,
     <<L(<<"h", "y", "b", "r", "i", "d">>)>>,
     <<L(<<"o", "n", "s", "i", "t", "e">>)>>,
     <<L(<<"i", "n", "-", "o", "f", "f", "i", "c", "e">>)>> >>

\* remote|hybrid|distributed
REMOTE_WORD_ALTS ==
  << <<L(<<"r", "e", "m", "o", "t", "e">>)>>,
     <<L(<<"h", "y", "b", "r", "i", "d">>)>>,
     <<L(<<"d", "i", "s", "t", "r", "i", "b", "u", "t", "e", "d">>)>> >>

\* the end of the line that holds 0-based position pos: where [^\n]+ stops
LineEnd(s, pos) ==
  CHOOSE e \in pos..Len(s) :
    /\ \A j \in (pos + 1)..e : s[j] # "\n"
    /\ (e < Len(s) => s[e + 1] = "\n")

\* the ways \s* c? \s* ([^\n]+) matches from end position e of the keyword:
\* <<w1, c, w2>> are the lengths the three optional parts take, w1 among w1s,
\* and the capture needs a character that is no newline
CaptureWays(s, e, sep, w1s) ==
  { w \in w1s \X {0, 1} \X (0..Len(s)) :
      /\ (w[2] = 1 => (e + w[1] < Len(s) /\ s[e + w[1] + 1] = sep))
      /\ w[3] <= WsRun(s, e + w[1] + w[2])
      /\ e + w[1] + w[2] + w[3] < Len(s)
      /\ s[e + w[1] + w[2] + w[3] + 1] # "\n" }

\* greedy matching: the longest first part, then the separator, then the
\* longest second part
Preferred(ways) ==
  CHOOSE w \in ways :
    \A v \in ways :
      \/ w[1] > v[1]
      \/ (w[1] = v[1] /\ w[2] > v[2])
      \/ (w[1] = v[1] /\ w[2] = v[2] /\ w[3] >= v[3])

\* m[1] for the way the engine prefers
Captured(s, e, ways) ==
  CHOOSE cap \in
    { Slice(s, q, LineEnd(s, q)) :
        q \in { e + w[1] + w[2] + w[3] : w \in {Preferred(ways)} } } : TRUE

\* every length the first \s* can take at e
AnyWs(s, e) == 0..WsRun(s, e)

\* the first \s* of the second location pattern keeps all the white space:
\* what follows it is optional
AllWs(s, e) == {WsRun(s, e)}

\* the ends of the keyword alternatives that match at pos
KeywordEnds(s, pos, alts) ==
  { MatchElems(s, pos, alts[a], 1) : a \in 1..Len(alts) } \ {-1}

\* m[1] of text.match(/(?:location|based\s+in|work\s+from|office)\s*:?\s*([^\n]+)/i),
\* or '' when there is no match; a position matches when its keyword can be
\* followed by a capture
LabelledLocationHits(s) ==
  { p \in 0..Len(s) :
      \E e \in KeywordEnds(s, p, LOCATION_LABEL_ALTS) :
        CaptureWays(s, e, ":", AnyWs(s, e)) # {} }

\* the captures at pos, one for each keyword alternative that matches there
LabelledCapturesAt(s, pos) ==
  { Captured(s, e, CaptureWays(s, e, ":", AnyWs(s, e))) :
      e \in { f \in KeywordEnds(s, pos, LOCATION_LABEL_ALTS) :
                CaptureWays(s, f, ":", AnyWs(s, f)) # {} } }

LabelledLocation(s) ==
  IF LabelledLocationHits(s) = {} THEN <<>>
  ELSE CHOOSE cap \in
         UNION { LabelledCapturesAt(s, p) :
                   p \in { q \in LabelledLocationHits(s) :
                             \A r \in LabelledLocationHits(s) : q <= r } } : TRUE

\* m[1] of text.match(/(?:remote|hybrid|onsite|in-office)\s*(?:-?\s*([^\n]+))?/i),
\* or '' when there is no match or the optional group took no part
WorkplaceHits(s) ==
  { p \in 0..Len(s) : KeywordEnds(s, p, LOCATION_WORD_ALTS) # {} }

WorkplaceCapturesAt(s, pos) ==
  { IF CaptureWays(s, e, "-", AllWs(s, e)) = {} THEN <<>>
    ELSE Captured(s, e, CaptureWays(s, e, "-", AllWs(s, e))) :
      e \in KeywordEnds(s, pos, LOCATION_WORD_ALTS) }

WorkplaceLocation(s) ==
  IF WorkplaceHits(s) = {} THEN <<>>
  ELSE CHOOSE cap \in
         UNION { WorkplaceCapturesAt(s, p) :
                   p \in { q \in WorkplaceHits(s) :
                             \A r \in WorkplaceHits(s) : q <= r } } : TRUE

\* if (val.length > 1 && val.length < 200): the captured value is taken
Acceptable(val) == Len(val) > 1 /\ Len(val) < 200

\* the loop over the location patterns of labelPatterns
LabelledField(s) ==
  IF Acceptable(Trim(LabelledLocation(s))) THEN Trim(LabelledLocation(s))
  ELSE IF Acceptable(Trim(WorkplaceLocation(s))) THEN Trim(WorkplaceLocation(s))
  ELSE <<>>

\* /remote|hybrid|distributed/i.test(text)
MentionsRemote(s) ==
  \E p \in 0..Len(s) : KeywordEnds(s, p, REMOTE_WORD_ALTS) # {}

NotSpecified == <<"N", "o", "t", " ", "s", "p", "e", "c", "i", "f", "i", "e", "d">>

\* lines 577-581: the fallbacks of result.location
LocationFallback(location, jobType, s) ==
  IF location # <<>> THEN location
  ELSE IF MentionsRemote(s)
       THEN IF jobType = <<"R", "e", "m", "o", "t", "e">> THEN <<"R", "e", "m", "o", "t", "e">>
            ELSE IF jobType = <<"H", "y", "b", "r", "i", "d">> THEN <<"H", "y", "b", "r", "i", "d">>
            ELSE <<"R", "e", "m", "o", "t", "e">>
       ELSE NotSpecified

\* to|at|here
APPLY_WORD_ALTS ==
  << <<L(<<"t", "o">>)>>,
     <<L(<<"a", "t">>)>>,
     <<L(<<"h", "e", "r", "e">>)>> >>

\* the end of a match of /apply\s*(?:to|at|here)?\s*:?\s*/i at pos, or -1
ApplyPhraseAt(s, pos) ==
  IF ~LitAt(s, <<"a", "p", "p", "l", "y">>, pos) THEN -1
  ELSE CHOOSE end \in
         { HeadingTail(s, IF FirstAlt(s, a, APPLY_WORD_ALTS) >= 0
                          THEN FirstAlt(s, a, APPLY_WORD_ALTS) ELSE a) :
             a \in {pos + 5 + WsRun(s, pos + 5)} } : TRUE

\* desc.replace(/apply\s*(?:to|at|here)?\s*:?\s*/gi, ''), from pos on
RECURSIVE RemoveApplyFrom(_, _)
RemoveApplyFrom(s, pos) ==
  IF pos >= Len(s) THEN <<>>
  ELSE IF ApplyPhraseAt(s, pos) >= 0 THEN RemoveApplyFrom(s, ApplyPhraseAt(s, pos))
       ELSE <<s[pos + 1]>> \o RemoveApplyFrom(s, pos + 1)

\* lines 584-589: the text handed to parseJobDescription. The texts of the
\* model hold no '/' and no '@', so urlRegex and the two e-mail patterns find
\* nothing: applyUrl, applyEmail and standaloneEmail are '' and the three
\* conditional replacements leave desc alone.
DescriptionText(s) == Trim(CollapseNewlines(RemoveApplyFrom(s, 0)))

\* job\s+title|position|role|title
TITLE_LABEL_ALTS ==
  << <<L(<<"j", "o", "b">>), S1, L(<<"t", "i", "t", "l", "e">>)>>,
     <<L(<<"p", "o", "s", "i", "t", "i", "o", "n">>)>>,
     <<L(<<"r", "o", "l", "e">>)>>,
     <<L(<<"t", "i", "t", "l", "e">>)>> >>

\* company|organization|employer|about
COMPANY_LABEL_ALTS ==
  << <<L(<<"c", "o", "m", "p", "a", "n", "y">>)>>,
     <<L(<<"o", "r", "g", "a", "n", "i", "z", "a", "t", "i", "o", "n">>)>>,
     <<L(<<"e", "m", "p", "l", "o", "y", "e", "r">>)>>,
     <<L(<<"a", "b", "o", "u", "t">>)>> >>

\* the positions where (?:alts)\s*:?\s*([^\n]+) matches, flag i
LabelHits(s, alts) ==
  { p \in 0..Len(s) :
      \E e \in KeywordEnds(s, p, alts) : CaptureWays(s, e, ":", AnyWs(s, e)) # {} }

LabelCapturesAt(s, pos, alts) ==
  { Captured(s, e, CaptureWays(s, e, ":", AnyWs(s, e))) :
      e \in { f \in KeywordEnds(s, pos, alts) :
                CaptureWays(s, f, ":", AnyWs(s, f)) # {} } }

\* m[1] of text.match(/(?:alts)\s*:?\s*([^\n]+)/i), or '' when there is no match
LabelCapture(s, alts) ==
  IF LabelHits(s, alts) = {} THEN <<>>
  ELSE CHOOSE cap \in
         UNION { LabelCapturesAt(s, p, alts) :
                   p \in { q \in LabelHits(s, alts) :
                             \A r \in LabelHits(s, alts) : q <= r } } : TRUE

\* the loop over the title patterns of labelPatterns. The texts of the model
\* hold neither "hiring" nor one of the role nouns (Engineer, Developer,
\* Manager, ...), so the second and the third pattern find nothing.
TitleField(s) ==
  IF Acceptable(Trim(LabelCapture(s, TITLE_LABEL_ALTS)))
  THEN Trim(LabelCapture(s, TITLE_LABEL_ALTS))
  ELSE <<>>

\* the loop over the company patterns of labelPatterns. The texts of the model
\* hold no "at" or "@" followed by white space and neither "join" nor "work
\* with", so the second and the third pattern find nothing.
CompanyField(s) ==
  IF Acceptable(Trim(LabelCapture(s, COMPANY_LABEL_ALTS)))
  THEN Trim(LabelCapture(s, COMPANY_LABEL_ALTS))
  ELSE <<>>

\* text.split('\n')[0]?.trim() || ''
FirstLine(s) == Trim(Slice(s, 0, LineEnd(s, 0)))

\* firstLine.match(/^(.+?)\s+at\s+(.+)$/i): the lengths that (.+?) can take
AtHits(line) ==
  { i \in 1..Len(line) :
      /\ WsRun(line, i) >= 1
      /\ LitAt(line, <<"a", "t">>, i + WsRun(line, i))
      /\ WsRun(line, i + WsRun(line, i) + 2) >= 1 }

\* atMatch[1]: the lazy (.+?) takes the shortest
AtTitle(line) ==
  Slice(line, 0, CHOOSE i \in AtHits(line) : \A j \in AtHits(line) : i <= j)

\* atMatch[2]
AtCompany(line) ==
  CHOOSE rest \in
    { Slice(line, a + 2 + WsRun(line, a + 2), Len(line)) :
        a \in { i + WsRun(line, i) :
                  i \in { k \in AtHits(line) : \A j \in AtHits(line) : k <= j } } } : TRUE

\* 'http'
HTTP == <<"h", "t", "t", "p">>

\* lines 565-575: result.title after the first-line fallback
TitleFallback(title, s) ==
  IF title # <<>> THEN title
  ELSE IF AtHits(FirstLine(s)) # {} THEN Trim(AtTitle(FirstLine(s)))
  ELSE IF FirstLine(s) # <<>> /\ Len(FirstLine(s)) < 100 /\ ~StartsWithAt(FirstLine(s), HTTP, 0)
       THEN FirstLine(s)
       ELSE <<>>

\* lines 565-571: result.company after the first-line fallback
CompanyFallback(title, company, s) ==
  IF title = <<>> /\ AtHits(FirstLine(s)) # {} /\ company = <<>>
  THEN Trim(AtCompany(FirstLine(s)))
  ELSE company

\* /a|b|.../i.test(title)
TestWords(s, alts) == \E p \in 0..Len(s) : KeywordEnds(s, p, alts) # {}

TECH_WORDS ==
  << <<L(<<"e", "n", "g", "i", "n", "e", "e", "r">>)>>,
     <<L(<<"d", "e", "v", "e", "l", "o", "p", "e", "r">>)>>,
     <<L(<<"d", "e", "v">>)>> >>

SOFTWARE_WORDS ==
  << <<L(<<"s", "o", "f", "t", "w", "a", "r", "e">>)>>,
     <<L(<<"s", "w", "e">>)>>,
     <<L(<<"s", "d", "e">>)>> >>

DESIGN_WORDS ==
  << <<L(<<"d", "e", "s", "i", "g", "n", "e", "r">>)>>,
     <<L(<<"d", "e", "s", "i", "g", "n">>)>> >>

LEADERSHIP_WORDS ==
  << <<L(<<"m", "a", "n", "a", "g", "e", "r">>)>>,
     <<L(<<"l", "e", "a", "d">>)>>,
     <<L(<<"d", "i", "r", "e", "c", "t", "o", "r">>)>> >>

DATA_WORDS ==
  << <<L(<<"d", "a", "t", "a">>)>>,
     <<L(<<"a", "n", "a", "l", "y", "s", "t">>)>>,
     <<L(<<"s", "c", "i", "e", "n", "t", "i", "s", "t">>)>> >>

PRODUCT_WORDS ==
  << <<L(<<"p", "r", "o", "d", "u", "c", "t">>)>> >>

REMOTE_TITLE_WORDS ==
  << <<L(<<"r", "e", "m", "o", "t", "e">>)>> >>

\* Set.prototype.add on a Set kept in insertion order
AddTag(tags, cond, tag) ==
  IF cond /\ \A k \in 1..Len(tags) : tags[k] # tag THEN Append(tags, tag) ELSE tags

\* new Set(['hiring', 'jobopening', 'jobs'])
SeedTags == <<"hiring", "jobopening", "jobs">>

\* lines 602-611: the tags the title adds
TitleTags(tags, title) ==
  AddTag(AddTag(AddTag(AddTag(AddTag(AddTag(AddTag(tags,
    title # <<>> /\ TestWords(title, TECH_WORDS), "techjobs"),
    title # <<>> /\ TestWords(title, SOFTWARE_WORDS), "softwareengineering"),
    title # <<>> /\ TestWords(title, DESIGN_WORDS), "design"),
    title # <<>> /\ TestWords(title, LEADERSHIP_WORDS), "leadership"),
    title # <<>> /\ TestWords(title, DATA_WORDS), "data"),
    title # <<>> /\ TestWords(title, PRODUCT_WORDS), "productmanagement"),
    title # <<>> /\ TestWords(title, REMOTE_TITLE_WORDS), "remotework")

\* lines 613-623: the tags the job type adds
TypeTags(tags, jobType) ==
  AddTag(AddTag(AddTag(AddTag(AddTag(AddTag(AddTag(tags,
    jobType = <<"R", "e", "m", "o", "t", "e">>, "remote"),
    jobType = <<"R", "e", "m", "o", "t", "e">>, "remotework"),
    jobType = <<"R", "e", "m", "o", "t", "e">>, "workfromhome"),
    jobType = <<"H", "y", "b", "r", "i", "d">>, "hybrid"),
    jobType = <<"I", "n", "t", "e", "r", "n", "s", "h", "i", "p">>, "internship"),
    jobType = <<"C", "o", "n", "t", "r", "a", "c", "t">>, "contract"),
    jobType = <<"F", "r", "e", "e", "l", "a", "n", "c", "e">>, "freelance")

\* suggestHashtags(parsed)
suggestHashtags(parsed) ==
  AddTag(TypeTags(TitleTags(SeedTags, parsed.title), parsed.jobType),
         parsed.company # <<>>, "careers")

\* lines 481-581: the fields of result taken from the text. The texts of the
\* model hold no '/' and no '@': no URL and no e-mail address is found and
\* applyLink stays ''.
ExtractedJob(s) ==
  [title |-> TitleFallback(TitleField(s), s),
   company |-> CompanyFallback(TitleField(s), CompanyField(s), s),
   location |-> LocationFallback(LabelledField(s), ExtractJobType(s), s),
   jobType |-> ExtractJobType(s),
   description |-> <<>>,
   applyLink |-> <<>>,
   suggestedHashtags |-> <<>>]

\* line 592: result.suggestedHashtags = suggestHashtags(result)
WithHashtags(result) == [result EXCEPT !.suggestedHashtags = suggestHashtags(result)]

-----------------------------------------------------------------------------
(* parsePastedJob as a state machine *)

PastePieces ==
  { <<"R", "e", "m", "o", "t", "e">>,
    <<"L", "o", "c", "a", "t", "i", "o", "n", ":">>,
    <<"L", "a", "g", "o", "s">>,
    <<"p", "e", "r", "k", "s">>,
    <<"a", "p", "p", "l", "y", " ", "t", "o">>,
    <<" ">>,
    <<"\n">>,
    <<"-">>,
    <<"D", "e", "v">>,
    <<"C", "o", "m", "p", "a", "n", "y", ":">>,
    <<"R", "o", "l", "e", ":">> }

\* the concatenations of at most n pieces
RECURSIVE PasteTexts(_)
PasteTexts(n) ==
  IF n = 0 THEN {<<>>}
  ELSE PasteTexts(n - 1) \cup {t \o p : t \in PasteTexts(n - 1), p \in PastePieces}

InitPaste ==
  /\ pasted \in PasteTexts(MaxPieces)
  /\ pp_pc = "call"
  /\ job = EmptyJob
  /\ IdleParse
  /\ IdleSplit
  /\ IdleFormat

\* lines 469-590: from the call to the call of parseJobDescription, or to the
\* return when the text or the description is empty
PasteEnter ==
  /\ pp_pc = "call"
  /\ IF Trim(pasted) = <<>>
     THEN /\ job' = EmptyJob
          /\ pp_pc' = "done"
          /\ UNCHANGED parseVars
     ELSE IF DescriptionText(Trim(pasted)) = <<>>
          THEN /\ job' = WithHashtags(ExtractedJob(Trim(pasted)))
               /\ pp_pc' = "done"
               /\ UNCHANGED parseVars
          ELSE /\ job' = ExtractedJob(Trim(pasted))
               /\ pp_pc' = "describe"
               /\ raw' = DescriptionText(Trim(pasted))
               /\ pj_pc' = "call"
               /\ UNCHANGED <<trimmed, patIdx, lastIndex, matches, pj_result, pass, firstResult>>
  /\ UNCHANGED pasted

\* lines 590-593: parseJobDescription has returned; the record is returned
PasteReturn ==
  /\ pp_pc = "describe"
  /\ pj_pc = "done"
  /\ job' = WithHashtags([job EXCEPT !.description = pj_result])
  /\ pp_pc' = "done"
  /\ UNCHANGED pasted
  /\ UNCHANGED parseVars

NextPaste ==
  \/ PasteEnter /\ UNCHANGED <<splitVars, formatVars>>
  \/ PasteReturn /\ UNCHANGED <<splitVars, formatVars>>
  \/ ParseEnter /\ UNCHANGED <<splitVars, pasteVars, formatVars>>
  \/ ExecStep /\ UNCHANGED <<splitVars, pasteVars, formatVars>>
  \/ HeapExhausted /\ UNCHANGED <<splitVars, pasteVars, formatVars>>
  \/ ParseReturn /\ UNCHANGED <<splitVars, pasteVars, formatVars>>

SpecPaste == InitPaste /\ [][NextPaste]_vars

-----------------------------------------------------------------------------
(* generateJobHashtags *)

\* at most MaxTrending trending hashtags are handed to generateJobHashtags
MaxTrending == 4

\* /job|hire|career|lagos|nigeria|remote|tech|work|recruit/i
JOB_RELEVANT_KEYWORDS ==
  << <<L(<<"j", "o", "b">>)>>,
     <<L(<<"h", "i", "r", "e">>)>>,
     <<L(<<"c", "a", "r", "e", "e", "r">>)>>,
     <<L(<<"l", "a", "g", "o", "s">>)>>,
     <<L(<<"n", "i", "g", "e", "r", "i", "a">>)>>,
     <<L(<<"r", "e", "m", "o", "t", "e">>)>>,
     <<L(<<"t", "e", "c", "h">>)>>,
     <<L(<<"w", "o", "r", "k">>)>>,
     <<L(<<"r", "e", "c", "r", "u", "i", "t">>)>> >>

\* the patterns tested on the title, lines 966-973
TECH_TITLE_WORDS ==
  << <<L(<<"e", "n", "g", "i", "n", "e", "e", "r">>)>>,
     <<L(<<"d", "e", "v", "e", "l", "o", "p", "e", "r">>)>>,
     <<L(<<"p", "r", "o", "g", "r", "a", "m", "m", "e", "r">>)>>,
     <<L(<<"s", "o", "f", "t", "w", "a", "r", "e">>)>> >>

MANAGEMENT_TITLE_WORDS ==
  << <<L(<<"m", "a", "n", "a", "g", "e", "r">>)>>,
     <<L(<<"m", "a", "n", "a", "g", "e", "m", "e", "n", "t">>)>> >>

SALES_TITLE_WORDS ==
  << <<L(<<"s", "a", "l", "e", "s">>)>>,
     <<L(<<"b", "u", "s", "i", "n", "e", "s", "s">>), S1, L(<<"d", "e", "v", "e", "l", "o", "p", "m", "e", "n", "t">>)>> >>

MARKETING_TITLE_WORDS ==
  << <<L(<<"m", "a", "r", "k", "e", "t", "i", "n", "g">>)>>,
     <<L(<<"b", "r", "a", "n", "d">>)>> >>

FINANCE_TITLE_WORDS ==
  << <<L(<<"f", "i", "n", "a", "n", "c", "e">>)>>,
     <<L(<<"a", "c", "c", "o", "u", "n", "t", "a", "n", "t">>)>>,
     <<L(<<"a", "c", "c", "o", "u", "n", "t", "i", "n", "g">>)>> >>

HR_TITLE_WORDS ==
  << <<L(<<"h", "r">>)>>,
     <<L(<<"h", "u", "m", "a", "n">>), S1, L(<<"r", "e", "s", "o", "u", "r", "c", "e">>)>> >>

DESIGN_TITLE_WORDS ==
  << <<L(<<"d", "e", "s", "i", "g", "n">>)>>,
     <<L(<<"c", "r", "e", "a", "t", "i", "v", "e">>)>> >>

DATA_TITLE_WORDS ==
  << <<L(<<"d", "a", "t", "a">>)>>,
     <<L(<<"a", "n", "a", "l", "y", "s", "t">>)>> >>

NIGERIAJOBS_WORDS ==
  << <<L(<<"n", "i", "g", "e", "r", "i", "a", "j", "o", "b", "s">>)>> >>

HIRING_WORDS ==
  << <<L(<<"h", "i", "r", "i", "n", "g">>)>> >>

\* s.toLowerCase().includes(w)
IncludesLower(s, w) == \E p \in 0..Len(s) : LitAt(s, w, p)

\* if (cond) jobTags.push(tag)
PushIf(tags, cond, tag) == IF cond THEN Append(tags, tag) ELSE tags

\* lines 951-955
LocationTags(location) ==
  PushIf(PushIf(PushIf(PushIf(<<>>,
    IncludesLower(location, <<"l", "a", "g", "o", "s">>), <<"L", "a", "g", "o", "s">>),
    IncludesLower(location, <<"a", "b", "u", "j", "a">>), <<"A", "b", "u", "j", "a">>),
    IncludesLower(location, <<"p", "o", "r", "t", " ", "h", "a", "r", "c", "o", "u", "r", "t">>), <<"P", "o", "r", "t", "H", "a", "r", "c", "o", "u", "r", "t">>),
    IncludesLower(location, <<"r", "e", "m", "o", "t", "e">>), <<"R", "e", "m", "o", "t", "e", "J", "o", "b", "s">>)

\* lines 958-962
JobTypeTags(tags, jobType) ==
  PushIf(PushIf(PushIf(PushIf(tags,
    IncludesLower(jobType, <<"f", "u", "l", "l">>), <<"F", "u", "l", "l", "T", "i", "m", "e">>),
    IncludesLower(jobType, <<"p", "a", "r", "t">>), <<"P", "a", "r", "t", "T", "i", "m", "e">>),
    IncludesLower(jobType, <<"i", "n", "t", "e", "r", "n">>), <<"I", "n", "t", "e", "r", "n", "s", "h", "i", "p">>),
    IncludesLower(jobType, <<"c", "o", "n", "t", "r", "a", "c", "t">>), <<"C", "o", "n", "t", "r", "a", "c", "t">>)

\* lines 965-973
JobTitleTags(tags, title) ==
  PushIf(PushIf(PushIf(PushIf(PushIf(PushIf(PushIf(PushIf(tags,
    TestWords(title, TECH_TITLE_WORDS), <<"T", "e", "c", "h", "J", "o", "b", "s">>),
    TestWords(title, MANAGEMENT_TITLE_WORDS), <<"M", "a", "n", "a", "g", "e", "m", "e", "n", "t">>),
    TestWords(title, SALES_TITLE_WORDS), <<"S", "a", "l", "e", "s">>),
    TestWords(title, MARKETING_TITLE_WORDS), <<"M", "a", "r", "k", "e", "t", "i", "n", "g">>),
    TestWords(title, FINANCE_TITLE_WORDS), <<"F", "i", "n", "a", "n", "c", "e">>),
    TestWords(title, HR_TITLE_WORDS), <<"H", "R">>),
    TestWords(title, DESIGN_TITLE_WORDS), <<"D", "e", "s", "i", "g", "n">>),
    TestWords(title, DATA_TITLE_WORDS), <<"D", "a", "t", "a", "J", "o", "b", "s">>)

\* if (!jobTags.some((t) => words.test(t))) jobTags.unshift(tag)
UnshiftUnlessSome(tags, words, tag) ==
  IF \E k \in 1..Len(tags) : TestWords(tags[k], words) THEN tags ELSE <<tag>> \o tags

\* lines 948-977: jobTags
JobTags(j) ==
  UnshiftUnlessSome(
    UnshiftUnlessSome(JobTitleTags(JobTypeTags(LocationTags(j.location), j.jobType), j.title),
                      NIGERIAJOBS_WORDS, <<"N", "i", "g", "e", "r", "i", "a", "J", "o", "b", "s">>),
    HIRING_WORDS, <<"H", "i", "r", "i", "n", "g">>)

\* Array.prototype.filter with the test JOB_RELEVANT_KEYWORDS.test(t), or its negation
RECURSIVE FilterRelevant(_, _)
FilterRelevant(list, wanted) ==
  IF list = <<>> THEN <<>>
  ELSE (IF TestWords(Head(list), JOB_RELEVANT_KEYWORDS) = wanted THEN <<Head(list)>> ELSE <<>>)
         \o FilterRelevant(Tail(list), wanted)

\* the trending tags in their given order, no preference
GivenOrder(trending) == trending

\* [...jobRelevant, ...trendingHashtags.filter((t) => !jobRelevant.includes(t))]:
\* a tag is in jobRelevant exactly when it passes the test
RelevantFirst(trending) ==
  FilterRelevant(trending, TRUE) \o FilterRelevant(trending, FALSE)

\* tag.replace(/^#/, '').trim()
NormalizeTag(t) == Trim(IF t # <<>> /\ t[1] = "#" THEN Tail(t) ELSE t)

\* the two loops over toAdd and jobTags: a tag is pushed when its normalized
\* form is not empty, has not been seen, and the result holds fewer than cap
RECURSIVE MergeTags(_, _, _)
MergeTags(result, list, cap) ==
  IF list = <<>> THEN result
  ELSE MergeTags(
         IF /\ NormalizeTag(Head(list)) # <<>>
            /\ \A k \in 1..Len(result) : result[k] # NormalizeTag(Head(list))
            /\ Len(result) < cap
         THEN Append(result, NormalizeTag(Head(list)))
         ELSE result,
         Tail(list), cap)

\* lines 983-993: the trending tags that are taken
TrendingTaken(trending) ==
  MergeTags(<<>>, SubSeq(RelevantFirst(trending), 1, Min2(3, Len(trending))), 3)

\* the merge without the limit of 5
MergeUncapped(j, trending) ==
  MergeTags(TrendingTaken(trending), JobTags(j), Len(trending) + Len(JobTags(j)) + 1)

\* generateJobHashtags(job, trendingHashtags)
generateJobHashtags(j, trending) ==
  CHOOSE r \in
    { SubSeq(m, 1, Min2(5, Len(m))) :
        m \in { MergeTags(taken, tags, 5) :
                  taken \in {TrendingTaken(trending)}, tags \in {JobTags(j)} } } : TRUE

\* the trending hashtags of the model
TrendingTags ==
  { <<"h", "i", "r", "i", "n", "g">>,
    <<"#", "L", "a", "g", "o", "s">>,
    <<"#">>,
    <<"n", "e", "w", "s">>,
    <<"#", "j", "o", "b", "s">> }

RECURSIVE TagLists(_)
TagLists(n) ==
  IF n = 0 THEN {<<>>}
  ELSE TagLists(n - 1) \cup {l \o <<t>> : l \in TagLists(n - 1), t \in TrendingTags}

\* the jobs of the model
TagTitles == { <<"C", "o", "o", "k">>, <<"S", "o", "f", "t", "w", "a", "r", "e", " ", "E", "n", "g", "i", "n", "e", "e", "r">> }
TagLocations == { <<>>, <<"L", "a", "g", "o", "s">> }
TagJobTypes == { <<"F", "u", "l", "l", "-", "t", "i", "m", "e">> }

InitTags ==
  /\ gh_job \in [title : TagTitles, location : TagLocations, jobType : TagJobTypes]
  /\ gh_trending \in TagLists(MaxTrending)
  /\ gh_pc = "call"
  /\ gh_result = <<>>
  /\ IdleSplit
  /\ IdleParse
  /\ IdlePaste
  /\ IdleApply
  /\ IdleAgain
  /\ IdleStatus
  /\ IdleCompose
  /\ IdleConcise
  /\ IdleServer

CallGenerateJobHashtags ==
  /\ gh_pc = "call"
  /\ gh_result' = generateJobHashtags(gh_job, gh_trending)
  /\ gh_pc' = "done"
  /\ UNCHANGED <<gh_job, gh_trending>>
  /\ UNCHANGED <<splitVars, parseVars, pasteVars, applyVars, againVars, statusVars, composeVars, conciseVars, serverVars>>

NextTags == CallGenerateJobHashtags

SpecTags == InitTags /\ [][NextTags]_vars

-----------------------------------------------------------------------------
(* formatApplySection *)

IsLetter(c) == \E k \in 1..26 : UpperChars[k] = c \/ LowerChars[k] = c

\* [a-zA-Z0-9._%+-]
IsLocalChar(c) == IsLetter(c) \/ IsDigit(c) \/ c \in {".", "_", "%", "+", "-"}

\* [a-zA-Z0-9.-]
IsDomainChar(c) == IsLetter(c) \/ IsDigit(c) \/ c \in {".", "-"}

\* /^[a-zA-Z0-9._%+-]+@[a-zA-Z0-9.-]+\.[a-zA-Z]{2,}$/.test(val): a is the
\* position of the '@' and d the position of the dot before the last label
IsPlainEmail(val) ==
  \E a \in 2..Len(val) :
    /\ val[a] = "@"
    /\ \A k \in 1..(a - 1) : IsLocalChar(val[k])
    /\ \E d \in (a + 2)..(Len(val) - 2) :
         /\ val[d] = "."
         /\ \A k \in (a + 1)..(d - 1) : IsDomainChar(val[k])
         /\ \A k \in (d + 1)..Len(val) : IsLetter(val[k])

MAILTO == <<"m", "a", "i", "l", "t", "o", ":">>

\* getApplyHref(applyLink)
getApplyHref(applyLink) ==
  IF Trim(applyLink) = <<>> THEN Trim(applyLink)
  ELSE IF \/ StartsWithAt(Trim(applyLink), <<"h", "t", "t", "p", ":", "/", "/">>, 0)
          \/ StartsWithAt(Trim(applyLink), <<"h", "t", "t", "p", "s", ":", "/", "/">>, 0)
          \/ StartsWithAt(Trim(applyLink), MAILTO, 0)
       THEN Trim(applyLink)
  ELSE IF IsPlainEmail(Trim(applyLink)) THEN MAILTO \o Trim(applyLink)
  ELSE Trim(applyLink)

\* isEmailApplyLink(applyLink)
isEmailApplyLink(applyLink) ==
  /\ Trim(applyLink) # <<>>
  /\ \/ StartsWithAt(Trim(applyLink), MAILTO, 0)
     \/ IsPlainEmail(Trim(applyLink))

\* getDisplayEmail(applyLink)
getDisplayEmail(applyLink) ==
  IF Trim(applyLink) = <<>> THEN <<>>
  ELSE IF StartsWithAt(Trim(applyLink), MAILTO, 0)
       THEN Trim(Slice(Trim(applyLink), 7, Len(Trim(applyLink))))
  ELSE IF IsPlainEmail(Trim(applyLink)) THEN Trim(applyLink)
  ELSE <<>>

\* s ends with the literal w, compared case-insensitively
EndsWithLower(s, w) == Len(s) >= Len(w) /\ LitAt(s, w, Len(s) - Len(w))

\* isMyJobMagUrl(url)
isMyJobMagUrl(url) ==
  /\ Trim(url) # <<>>
  /\ \/ IncludesLower(Trim(url), <<"m", "y", "j", "o", "b", "m", "a", "g", ".", "c", "o", "m", "/", "j", "o", "b", "/">>)
     \/ EndsWithLower(Trim(url), <<"m", "y", "j", "o", "b", "m", "a", "g", ".", "c", "o", "m", "/", "j", "o", "b">>)

CV_SENTENCE == <<"I", "n", "t", "e", "r", "e", "s", "t", "e", "d", " ", "a", "n", "d", " ", "q", "u", "a", "l", "i", "f", "i", "e", "d", " ", "c", "a", "n", "d", "i", "d", "a", "t", "e", "s", " ", "s", "h", "o", "u", "l", "d", " ", "s", "e", "n", "d", " ", "t", "h", "e", "i", "r", " ", "C", "V", "s", " ", "t", "o", ":", " ">>

LISTING_SENTENCE == <<"I", "n", "t", "e", "r", "e", "s", "t", "e", "d", " ", "a", "n", "d", " ", "q", "u", "a", "l", "i", "f", "i", "e", "d", "?", " ", "A", "p", "p", "l", "y", " ", "v", "i", "a", " ", "t", "h", "e", " ", "o", "r", "i", "g", "i", "n", "a", "l", " ", "l", "i", "s", "t", "i", "n", "g", ".">>

\* `Interested and qualified? <a href="${href}">Apply Now</a>.`
ApplyLinkMarkup(href) ==
  <<"I", "n", "t", "e", "r", "e", "s", "t", "e", "d", " ", "a", "n", "d", " ", "q", "u", "a", "l", "i", "f", "i", "e", "d", "?", " ", "<", "a", " ", "h", "r", "e", "f", "=", "\"">> \o href \o <<"\"", ">", "A", "p", "p", "l", "y", " ", "N", "o", "w", "<", "/", "a", ">", ".">>

\* `Interested and qualified? Apply Now.\n${val}`
ApplyPlain(val) == <<"I", "n", "t", "e", "r", "e", "s", "t", "e", "d", " ", "a", "n", "d", " ", "q", "u", "a", "l", "i", "f", "i", "e", "d", "?", " ", "A", "p", "p", "l", "y", " ", "N", "o", "w", ".", "\n">> \o val

\* lines 681-702 of formatApplySection, for val = applyLink.trim(); an
\* undefined sourceUrl is the empty string, falsy alike
ApplySectionOf(val, forTelegram, sourceUrl) ==
  IF val = <<>> THEN <<>>
  ELSE IF isEmailApplyLink(val) /\ getDisplayEmail(val) # <<>>
       THEN CV_SENTENCE \o getDisplayEmail(val)
  ELSE IF isMyJobMagUrl(val) \/ (sourceUrl # <<>> /\ val = sourceUrl)
       THEN LISTING_SENTENCE
  ELSE IF forTelegram THEN ApplyLinkMarkup(getApplyHref(val))
  ELSE ApplyPlain(val)

\* formatApplySection(applyLink, _company, forTelegram, sourceUrl)
formatApplySection(applyLink, company, forTelegram, sourceUrl) ==
  CHOOSE out \in { ApplySectionOf(val, forTelegram, sourceUrl) :
                     val \in {Trim(applyLink)} } : TRUE

\* the apply targets of the model
ApplyTargets ==
  { <<>>,
    <<" ">>,
    <<"j", "o", "b", "s", "@", "a", "c", "m", "e", ".", "c", "o", "m">>,
    <<" ", "j", "o", "b", "s", "@", "a", "c", "m", "e", ".", "c", "o", "m", " ">>,
    <<"m", "a", "i", "l", "t", "o", ":", "j", "o", "b", "s", "@", "a", "c", "m", "e", ".", "c", "o", "m">>,
    <<"m", "a", "i", "l", "t", "o", ":">>,
    <<"m", "a", "i", "l", "t", "o", ":", " ">>,
    <<"a", "@", "b">>,
    <<"h", "t", "t", "p", "s", ":", "/", "/", "a", "c", "m", "e", ".", "c", "o", "m", "/", "c", "a", "r", "e", "e", "r", "s", "/", "4", "2">>,
    <<"a", "c", "m", "e", ".", "c", "o", "m", "/", "a", "p", "p", "l", "y">>,
    <<"h", "t", "t", "p", "s", ":", "/", "/", "w", "w", "w", ".", "m", "y", "j", "o", "b", "m", "a", "g", ".", "c", "o", "m", "/", "j", "o", "b", "/", "d", "e", "v", "-", "1">>,
    <<"h", "t", "t", "p", "s", ":", "/", "/", "M", "y", "J", "o", "b", "M", "a", "g", ".", "c", "o", "m", "/", "j", "o", "b">>,
    <<"h", "t", "t", "p", "s", ":", "/", "/", "w", "w", "w", ".", "m", "y", "j", "o", "b", "m", "a", "g", ".", "c", "o", "m", "/", "j", "o", "b", "s">> }

SourceUrls ==
  { <<>>,
    <<"h", "t", "t", "p", "s", ":", "/", "/", "a", "c", "m", "e", ".", "c", "o", "m", "/", "c", "a", "r", "e", "e", "r", "s", "/", "4", "2">>,
    <<"h", "t", "t", "p", "s", ":", "/", "/", "w", "w", "w", ".", "m", "y", "j", "o", "b", "m", "a", "g", ".", "c", "o", "m", "/", "j", "o", "b", "/", "d", "e", "v", "-", "1">> }

ApplyCompanies == { <<>>, <<"A", "c", "m", "e">> }

\* no call yet in either mode
NotCalled == [m \in BOOLEAN |-> [called |-> FALSE, value |-> <<>>]]

InitApply ==
  /\ ap_link \in ApplyTargets
  /\ ap_company \in ApplyCompanies
  /\ ap_source \in SourceUrls
  /\ ap_result = NotCalled
  /\ IdleSplit
  /\ IdleParse
  /\ IdlePaste
  /\ IdleTags
  /\ IdleAgain
  /\ IdleStatus
  /\ IdleCompose
  /\ IdleConcise
  /\ IdleServer

\* one call in rich-text (forTelegram) or in plain-text mode
CallFormatApplySection ==
  /\ \E forTelegram \in BOOLEAN :
       /\ ~ap_result[forTelegram].called
       /\ ap_result' = [ap_result EXCEPT ![forTelegram] =
                          [called |-> TRUE,
                           value |-> formatApplySection(ap_link, ap_company, forTelegram, ap_source)]]
  /\ UNCHANGED <<ap_link, ap_company, ap_source>>
  /\ UNCHANGED <<splitVars, parseVars, pasteVars, tagVars, againVars, statusVars, composeVars, conciseVars, serverVars>>

NextApply == CallFormatApplySection

SpecApply == InitApply /\ [][NextApply]_vars

-----------------------------------------------------------------------------
(* Two calls of splitIntoThread, and the environment between them *)

\* two runs of letters at the standard limit, not padded
TwoRunTexts(limit) == TextsOf(limit, {<<>>}, {0})

InitAgain ==
  /\ premium \in BOOLEAN
  /\ text \in TwoRunTexts(X_CHAR_LIMIT)
  /\ st_pc = "input"
  /\ st_result = <<>>
  /\ pu_again = FALSE
  /\ pu_second = <<>>
  /\ IdleParse
  /\ IdlePaste
  /\ IdleTags
  /\ IdleApply
  /\ IdleStatus
  /\ IdleCompose
  /\ IdleConcise
  /\ IdleServer

\* process.env.NEXT_PUBLIC_TWITTER_PREMIUM is read at every call (lines 312
\* and 319): the environment of the process is state outside the arguments,
\* and it is set anew between the two calls
ReloadEnv ==
  /\ st_pc = "done"
  /\ ~pu_again
  /\ premium' = ~premium
  /\ UNCHANGED <<text, st_pc, st_result, pu_again, pu_second>>
  /\ UNCHANGED <<parseVars, pasteVars, tagVars, applyVars, statusVars, composeVars, conciseVars, serverVars>>

\* the second call, with the argument of the first
CallSplitIntoThreadAgain ==
  /\ st_pc = "done"
  /\ ~pu_again
  /\ pu_second' = splitIntoThread(text)
  /\ pu_again' = TRUE
  /\ UNCHANGED splitVars
  /\ UNCHANGED <<parseVars, pasteVars, tagVars, applyVars, statusVars, composeVars, conciseVars, serverVars>>

NextAgain ==
  \/ CallSplitIntoThread
  \/ ReloadEnv
  \/ CallSplitIntoThreadAgain

SpecAgain == InitAgain /\ [][NextAgain]_vars

-----------------------------------------------------------------------------
(* getCharacterStatus *)

\* needsThread taken from the thread limit instead of the character limit
StatusByThreadLimit(t) ==
  [count |-> Len(t),
   remaining |-> getXCharLimit - Len(t),
   isOverLimit |-> Len(t) > getXCharLimit,
   needsThread |-> Len(t) > getXThreadLimit,
   threadCount |-> IF Len(t) > getXThreadLimit THEN Len(splitIntoThread(t)) ELSE 1,
   charLimit |-> getXCharLimit]

\* getCharacterStatus(text)
getCharacterStatus(t) ==
  [count |-> Len(t),
   remaining |-> getXCharLimit - Len(t),
   isOverLimit |-> Len(t) > getXCharLimit,
   needsThread |-> Len(t) > getXCharLimit,
   threadCount |-> IF Len(t) > getXCharLimit THEN Len(splitIntoThread(t)) ELSE 1,
   charLimit |-> getXCharLimit]

InitStatus ==
  /\ premium \in BOOLEAN
  /\ text \in TwoRunTexts(getXCharLimit)
  /\ st_pc = "idle"
  /\ st_result = <<>>
  /\ cs_pc = "call"
  /\ cs_status = NoStatus
  /\ IdleParse
  /\ IdlePaste
  /\ IdleTags
  /\ IdleApply
  /\ IdleAgain
  /\ IdleCompose
  /\ IdleConcise
  /\ IdleServer

CallGetCharacterStatus ==
  /\ cs_pc = "call"
  /\ cs_status' = getCharacterStatus(text)
  /\ cs_pc' = "done"
  /\ UNCHANGED splitVars
  /\ UNCHANGED <<parseVars, pasteVars, tagVars, applyVars, againVars, composeVars, conciseVars, serverVars>>

NextStatus == CallGetCharacterStatus

SpecStatus == InitStatus /\ [][NextStatus]_vars

-----------------------------------------------------------------------------
(* The message composers *)

\* s.indexOf(pat)
IndexOf(s, pat) ==
  CHOOSE r \in
    { IF hits = {} THEN -1 ELSE CHOOSE i \in hits : \A j \in hits : i <= j :
        hits \in { {i \in 0..Len(s) : StartsWithAt(s, pat, i)} } } : TRUE

\* the text is kept whole, whatever its length
KeepWhole(t, maxChars) == Trim(t)

\* lines 736-741 of truncateForTwitter: the cut of a text longer than maxChars;
\* lastSpace > maxChars * 0.5 is 2 * lastSpace > maxChars
CutAtSpace(cut, lastSpace, maxChars) ==
  IF 2 * lastSpace > maxChars THEN Trim(Slice(cut, 0, lastSpace)) ELSE Trim(cut)

\* truncateForTwitter, for the trimmed text
TruncateTrimmed(t, maxChars) ==
  IF Len(t) <= maxChars THEN t
  ELSE CHOOSE out \in
         UNION { { CutAtSpace(cut, lastSpace, maxChars) :
                     lastSpace \in {LastIndexOf(cut, <<" ">>, Len(cut))} } :
                   cut \in {Slice(t, 0, maxChars)} } : TRUE

\* truncateForTwitter(text, maxChars)
truncateForTwitter(t, maxChars) ==
  CHOOSE out \in { TruncateTrimmed(tr, maxChars) : tr \in {Trim(t)} } : TRUE

\* lines 748-752 of getFirstSentence: `end`, for the trimmed text
SentenceEnd(t, firstPeriod, firstNewline, maxChars) ==
  IF firstNewline > 0 /\ firstNewline < maxChars
  THEN Min2(IF firstPeriod > 0 /\ firstPeriod < maxChars
            THEN Min2(Len(t), firstPeriod + 1) ELSE Len(t),
            firstNewline)
  ELSE IF firstPeriod > 0 /\ firstPeriod < maxChars
       THEN Min2(Len(t), firstPeriod + 1) ELSE Len(t)

\* getFirstSentence, for the trimmed text
FirstSentenceTrimmed(t, maxChars) ==
  IF t = <<>> THEN <<>>
  ELSE CHOOSE out \in
         { truncateForTwitter(sentence, maxChars) :
             sentence \in { Slice(t, 0, SentenceEnd(t, firstPeriod, firstNewline, maxChars)) :
                              firstPeriod \in {IndexOf(t, <<".", " ">>)},
                              firstNewline \in {IndexOf(t, <<"\n">>)} } } : TRUE

\* getFirstSentence(text, maxChars)
getFirstSentence(t, maxChars) ==
  CHOOSE out \in { FirstSentenceTrimmed(tr, maxChars) : tr \in {Trim(t)} } : TRUE

\* `We're hiring! ${firstSentence}${firstSentence.endsWith('.') ? '' : '.'}\n\n`, or ''
IntroOf(firstSentence) ==
  IF firstSentence = <<>> THEN <<>>
  ELSE <<"W", "e", "'", "r", "e", " ", "h", "i", "r", "i", "n", "g", "!", " ">> \o firstSentence
         \o (IF firstSentence[Len(firstSentence)] = "." THEN <<>> ELSE <<".">>)
         \o BlankLine

Intro(firstSentence) ==
  CHOOSE out \in { IntroOf(fs) : fs \in {firstSentence} } : TRUE

\* s.split(c)
RECURSIVE SplitBy(_, _)
SplitBy(s, c) ==
  CHOOSE out \in
    { IF i < 0 THEN <<t>>
      ELSE <<Slice(t, 0, i)>> \o SplitBy(Slice(t, i + 1, Len(t)), c) :
        t \in {s}, i \in {IndexOf(s, <<c>>)} } : TRUE

\* .map(p => p.trim()).filter(Boolean)
RECURSIVE TrimmedParts(_)
TrimmedParts(parts) ==
  CHOOSE out \in
    { IF ps = <<>> THEN <<>>
      ELSE (IF Trim(Head(ps)) = <<>> THEN <<>> ELSE <<Trim(Head(ps))>>)
             \o TrimmedParts(Tail(ps)) :
        ps \in {parts} } : TRUE

BAR == <<" ", "|", " ">>

\* lines 759-770 of parseLocationAndType, for the trimmed arguments
LocationAndTypeOf(loc, type, parts) ==
  IF type = <<>> THEN [locationLine |-> loc, typeLine |-> <<>>]
  ELSE IF Len(parts) >= 2
       THEN [locationLine |-> IF loc # <<>> THEN loc \o BAR \o parts[1] ELSE parts[1],
             typeLine |-> Join(Tail(parts), BAR)]
  ELSE [locationLine |-> IF loc # <<>> THEN loc \o BAR \o type ELSE type,
        typeLine |-> <<>>]

\* parseLocationAndType(location, jobType)
parseLocationAndType(location, jobType) ==
  CHOOSE r \in
    UNION { { LocationAndTypeOf(loc, type, parts) :
                parts \in {TrimmedParts(SplitBy(type, "|"))} } :
              loc \in {Trim(location)}, type \in {Trim(jobType)} } : TRUE

\* the strings of a list that are not empty
NonEmptyLines(lines) == SelectSeq(lines, LAMBDA l : l # <<>>)

\* lines 788-792: metaBlock of formatTwitterMessage
TwitterMetaBlock(j) ==
  CHOOSE b \in
    { IF metaLines = <<>> THEN BlankLine
      ELSE <<"\n">> \o Join(metaLines, <<"\n">>) \o BlankLine :
        metaLines \in { NonEmptyLines(<<lt.locationLine, lt.typeLine>>) :
                          lt \in {parseLocationAndType(j.location, j.jobType)} } } : TRUE

\* `#${tag.replace(/^#/, '')}`
HashTag(tag) == <<"#">> \o (IF tag # <<>> /\ tag[1] = "#" THEN Tail(tag) ELSE tag)

\* lines 777-779: hashtags
HashtagSuffix(tags) ==
  IF tags = <<>> THEN <<>>
  ELSE <<" ">> \o Join([i \in 1..Len(tags) |-> HashTag(tags[i])], <<" ">>)

\* lines 784-786: header
TwitterHeader(j) ==
  IF Trim(j.company) # <<>> THEN j.title \o <<" ", "a", "t", " ">> \o j.company ELSE j.title

\* formatTwitterMessage(job), given what parseJobDescription(job.description) returned
formatTwitterMessage(j, description) ==
  TwitterHeader(j) \o TwitterMetaBlock(j) \o Intro(getFirstSentence(j.description, 100))
    \o description \o BlankLine
    \o formatApplySection(j.applyLink, j.company, FALSE, <<>>)
    \o HashtagSuffix(j.hashtags)

\* `<b>${s}</b>`
Bold(s) == <<"<", "b", ">">> \o s \o <<"<", "/", "b", ">">>

\* if (value.trim()) metaLines.push(`<b>${label}</b> ${value}`)
MetaLine(label, value) ==
  IF Trim(value) = <<>> THEN <<>> ELSE Bold(label) \o <<" ">> \o value

\* lines 817-821: metaBlock of formatTelegramMessage
TelegramMetaBlock(j) ==
  CHOOSE b \in
    { IF lines = <<>> THEN <<>> ELSE Join(lines, <<"\n">>) \o BlankLine :
        lines \in { NonEmptyLines(<<MetaLine(<<"C", "o", "m", "p", "a", "n", "y", ":">>, j.company),
                                    MetaLine(<<"L", "o", "c", "a", "t", "i", "o", "n", ":">>, j.location),
                                    MetaLine(<<"T", "y", "p", "e", ":">>, j.jobType)>>) } } : TRUE

\* formatTelegramMessage(job), given what parseJobDescription(job.description) returned
formatTelegramMessage(j, description) ==
  Bold(TwitterHeader(j)) \o BlankLine \o TelegramMetaBlock(j)
    \o Intro(getFirstSentence(j.description, 100))
    \o description \o BlankLine
    \o formatApplySection(j.applyLink, j.company, TRUE, <<>>)

\* the jobs of the model
ComposeTitles == { <<"B", "a", "c", "k", "e", "n", "d", " ", "E", "n", "g", "i", "n", "e", "e", "r">> }
ComposeCompanies == { <<>>, <<"A", "c", "m", "e">> }
ComposeLocations == { <<>>, <<"L", "a", "g", "o", "s">> }
ComposeJobTypes == { <<>>, <<"F", "u", "l", "l", "-", "t", "i", "m", "e">>, <<"R", "e", "m", "o", "t", "e", " ", "|", " ", "F", "u", "l", "l", " ", "T", "i", "m", "e">> }
ComposeLinks == { <<>>,
    <<"j", "o", "b", "s", "@", "a", "c", "m", "e", ".", "c", "o", "m">>,
    <<"h", "t", "t", "p", "s", ":", "/", "/", "a", "c", "m", "e", ".", "c", "o", "m", "/", "c", "a", "r", "e", "e", "r", "s", "/", "4", "2">> }
ComposeHashtags == { <<>>, <<<<"h", "i", "r", "i", "n", "g">>>>, <<<<"#", "h", "i", "r", "i", "n", "g">>, <<"j", "o", "b", "s">>>> }

\* 'word ' twenty-five times: a first sentence of more than 100 characters
LongSentence == [i \in 1..125 |-> <<"w", "o", "r", "d", " ">>[((i - 1) % 5) + 1]]

ComposeDescriptions ==
  { <<>>,
    <<"B", "u", "i", "l", "d", " ", "A", "P", "I", "s", ".", " ", "S", "h", "i", "p", " ", "i", "t">>,
    <<"B", "u", "i", "l", "d", " ", "A", "P", "I", "s", "\n", "N", "o", "d", "e">>,
    <<"A", "b", "o", "u", "t", " ", "t", "h", "e", " ", "r", "o", "l", "e", ":", " ", "B", "u", "i", "l", "d", " ", "A", "P", "I", "s", ".", "\n", "\n", "R", "e", "q", "u", "i", "r", "e", "m", "e", "n", "t", "s", ":", " ", "N", "o", "d", "e", ",", " ", "S", "Q", "L", ".">>,
    LongSentence }

InitCompose ==
  /\ cm_job \in [title : ComposeTitles, company : ComposeCompanies,
                 location : ComposeLocations, jobType : ComposeJobTypes,
                 description : ComposeDescriptions, applyLink : ComposeLinks,
                 hashtags : ComposeHashtags]
  /\ cm_channel \in {"twitter", "telegram"}
  /\ cm_pc = "call"
  /\ cm_message = <<>>
  /\ IdleSplit
  /\ IdleParse
  /\ IdlePaste
  /\ IdleTags
  /\ IdleApply
  /\ IdleAgain
  /\ IdleStatus
  /\ IdleConcise
  /\ IdleServer

\* lines 777-781 and 810: the call of parseJobDescription(job.description)
ComposeEnter ==
  /\ cm_pc = "call"
  /\ cm_pc' = "describe"
  /\ raw' = cm_job.description
  /\ pj_pc' = "call"
  /\ UNCHANGED <<trimmed, patIdx, lastIndex, matches, pj_result, pass, firstResult>>
  /\ UNCHANGED <<cm_job, cm_channel, cm_message>>

\* lines 782-802 and 811-833: parseJobDescription has returned; the message
ComposeReturn ==
  /\ cm_pc = "describe"
  /\ pj_pc = "done"
  /\ \E m \in { IF cm_channel = "twitter"
                 THEN formatTwitterMessage(cm_job, pj_result)
                 ELSE formatTelegramMessage(cm_job, pj_result) } :
       cm_message' = m
  /\ cm_pc' = "done"
  /\ UNCHANGED <<cm_job, cm_channel>>
  /\ UNCHANGED parseVars

NextCompose ==
  \/ ComposeEnter /\ UNCHANGED <<splitVars, pasteVars, tagVars, applyVars, againVars, statusVars, conciseVars, serverVars>>
  \/ ComposeReturn /\ UNCHANGED <<splitVars, pasteVars, tagVars, applyVars, againVars, statusVars, conciseVars, serverVars>>
  \/ ParseEnter /\ UNCHANGED <<splitVars, pasteVars, formatVars>>
  \/ ExecStep /\ UNCHANGED <<splitVars, pasteVars, formatVars>>
  \/ HeapExhausted /\ UNCHANGED <<splitVars, pasteVars, formatVars>>
  \/ ParseReturn /\ UNCHANGED <<splitVars, pasteVars, formatVars>>

SpecCompose == InitCompose /\ [][NextCompose]_vars

\* the engine keeps running the call
FairSpecCompose == SpecCompose /\ WF_vars(NextCompose)

-----------------------------------------------------------------------------
(* The concise Twitter formatter *)

\* \s*[^\n]+ from p, with n white-space characters from p on: the end of the
\* match, or -1. When the white space runs to the end of the text, \s* gives
\* characters back until one that is not a newline is left for [^\n]+.
RestOfLine(s, p, n) ==
  IF p + n < Len(s) THEN LineEnd(s, p + n)
  ELSE IF \E m \in 0..(n - 1) : s[p + m + 1] # "\n"
       THEN (CHOOSE m \in 0..(n - 1) :
               /\ s[p + m + 1] # "\n"
               /\ \A k \in (m + 1)..(n - 1) : s[p + k + 1] = "\n") + 1 + p
  ELSE -1

\* /\blabel\s*[^\n]+/i at the 0-based position i: the end of the match, or -1
LabelledEnd(s, label, i) ==
  IF (i = 0 \/ ~IsWordChar(s[i])) /\ LitAt(s, label, i)
  THEN RestOfLine(s, i + Len(label), WsRun(s, i + Len(label)))
  ELSE -1

\* the 0-based positions from i on where /\blabel\s*[^\n]+/i matches
LabelledStarts(s, label, i) ==
  {m \in i..Len(s) : LabelledEnd(s, label, m) >= 0}

\* s.replace(/\blabel\s*[^\n]+/gi, '') from the 0-based position i on
RECURSIVE RemoveLabelledFrom(_, _, _)
RemoveLabelledFrom(s, label, i) ==
  CHOOSE out \in
    { IF starts = {} THEN Slice(s, i, Len(s))
      ELSE Slice(s, i, CHOOSE m \in starts : \A k \in starts : m <= k)
             \o RemoveLabelledFrom(s, label,
                  LabelledEnd(s, label, CHOOSE m \in starts : \A k \in starts : m <= k)) :
        starts \in {LabelledStarts(s, label, i)} } : TRUE

POSTED == <<"p", "o", "s", "t", "e", "d", ":">>
DEADLINE == <<"d", "e", "a", "d", "l", "i", "n", "e", ":">>

\* stripMetadataFromDescription(desc). The descriptions of the model hold no
\* name of a month and no '|', so the three replacements of dates and the one
\* of '... | Remote Jobs' lines (lines 710-712 and 715) find nothing in them.
stripMetadataFromDescription(desc) ==
  CHOOSE out \in
    { Trim(CollapseNewlines(RemoveLabelledFrom(posted, DEADLINE, 0))) :
        posted \in {RemoveLabelledFrom(desc, POSTED, 0)} } : TRUE

\* about\s+the\s+role:
ABOUT_ROLE_INLINE ==
  <<L(<<"a", "b", "o", "u", "t">>), S1, L(<<"t", "h", "e">>), S1, L(<<"r", "o", "l", "e", ":">>)>>

\* ^about\s+the\s+role\s*:
ABOUT_ROLE_LINE ==
  <<L(<<"a", "b", "o", "u", "t">>), S1, L(<<"t", "h", "e">>), S1, L(<<"r", "o", "l", "e">>), S0, L(<<":">>)>>

\* `About the role:\n${company} is hiring a ${title}.\n\n`
AboutFallback(company, title) ==
  <<"A", "b", "o", "u", "t", " ", "t", "h", "e", " ", "r", "o", "l", "e", ":", "\n">> \o company \o <<" ", "i", "s", " ", "h", "i", "r", "i", "n", "g", " ", "a", " ">> \o title \o <<".">> \o BlankLine

\* ensureAboutSection(parsedDesc, company, title)
ensureAboutSection(parsedDesc, company, title) ==
  IF \/ \E p \in 0..Len(parsedDesc) : MatchElems(parsedDesc, p, ABOUT_ROLE_INLINE, 1) >= 0
     \/ \E p \in 0..Len(parsedDesc) :
          LineStart(parsedDesc, p) /\ MatchElems(parsedDesc, p, ABOUT_ROLE_LINE, 1) >= 0
  THEN parsedDesc
  ELSE AboutFallback(company, title) \o parsedDesc

\* hashtags.map(t => `#${t}`).join(' ')
HashtagStr(tags) == Join([i \in 1..Len(tags) |-> <<"#">> \o tags[i]], <<" ">>)

\* lines 1027-1030: reserved, descBudget and the truncated description
ConciseDescription(header, intro, applySection, hashtagStr, withAbout) ==
  CHOOSE r \in
    { [header |-> header, intro |-> intro, applySection |-> applySection,
       hashtagStr |-> hashtagStr, reserved |-> reserved,
       description |-> truncateForTwitter(withAbout, Max2(80, getXCharLimit - reserved))] :
        reserved \in { Len(header) + Len(intro) + Len(applySection) + Len(hashtagStr) + 30 } } : TRUE

\* lines 1012-1030 of formatConciseTwitterJob: the locals, given what
\* parseJobDescription(sanitized) returned
ConciseParts(j, trending, parsedDesc) ==
  CHOOSE r \in
    { ConciseDescription(header, intro, applySection, hashtagStr, withAbout) :
        header \in { j.title \o <<" ", "a", "t", " ">> \o j.company },
        intro \in { Intro(getFirstSentence(stripMetadataFromDescription(j.description), 80)) },
        applySection \in { formatApplySection(j.applyUrl, j.company, FALSE, j.sourceUrl) },
        hashtagStr \in { HashtagStr(generateJobHashtags(j, trending)) },
        withAbout \in { ensureAboutSection(parsedDesc, j.company, j.title) } } : TRUE

\* lines 1032-1037: the template of formatConciseTwitterJob
ConciseMessage(parts) ==
  parts.header \o BlankLine \o parts.intro \o parts.description \o BlankLine
    \o parts.applySection \o BlankLine \o parts.hashtagStr

\* 'word ' n times
Words(n) == [i \in 1..(5 * n) |-> <<"w", "o", "r", "d", " ">>[((i - 1) % 5) + 1]]

\* an apply URL of 157 characters
LongUrl == <<"h", "t", "t", "p", "s", ":", "/", "/", "a", "c", "m", "e", ".", "c", "o", "m", "/">> \o Rep("a", 140)

ConciseDescriptions ==
  { <<>>,
    <<"W", "e", " ", "c", "o", "o", "k">>,
    <<"B", "u", "i", "l", "d", " ", "A", "P", "I", "s", ".", " ">> \o Words(50),
    <<"P", "o", "s", "t", "e", "d", ":", " ", "t", "o", "d", "a", "y", "\n", "B", "u", "i", "l", "d", " ", "A", "P", "I", "s", ".", " ">> \o Words(40),
    <<"M", "o", "r", "e", " ", "a", "b", "o", "u", "t", " ", "t", "h", "e", " ", "r", "o", "l", "e", ":", " ", "c", "o", "o", "k", ".", " ">> \o Words(50),
    <<"O", "v", "e", "r", "v", "i", "e", "w", ":", "x">> }

ConciseApplyUrls ==
  { <<>>,
    <<"j", "o", "b", "s", "@", "a", "c", "m", "e", ".", "c", "o", "m">>,
    <<"h", "t", "t", "p", "s", ":", "/", "/", "a", "c", "m", "e", ".", "c", "o", "m", "/", "c", "a", "r", "e", "e", "r", "s", "/", "4", "2">>,
    LongUrl }

ConciseSourceUrls == { <<>>, <<"h", "t", "t", "p", "s", ":", "/", "/", "a", "c", "m", "e", ".", "c", "o", "m", "/", "c", "a", "r", "e", "e", "r", "s", "/", "4", "2">> }

ConciseTrending == { <<>>, <<<<"h", "i", "r", "i", "n", "g">>, <<"#", "L", "a", "g", "o", "s">>>> }

InitConcise ==
  /\ cj_job \in [title : { <<"C", "o", "o", "k">> }, company : { <<"A", "c", "m", "e">> },
                 location : { <<"L", "a", "g", "o", "s">> }, jobType : { <<"F", "u", "l", "l", "-", "t", "i", "m", "e">> },
                 description : ConciseDescriptions, applyUrl : ConciseApplyUrls,
                 sourceUrl : ConciseSourceUrls]
  /\ cj_trending \in ConciseTrending
  /\ cj_pc = "call"
  /\ cj_parts = NoParts
  /\ cj_message = <<>>
  /\ premium \in BOOLEAN
  /\ text = <<>>
  /\ st_pc = "idle"
  /\ st_result = <<>>
  /\ IdleParse
  /\ IdlePaste
  /\ IdleTags
  /\ IdleApply
  /\ IdleAgain
  /\ IdleStatus
  /\ IdleCompose
  /\ IdleServer

\* lines 1012-1017: the call of parseJobDescription(sanitized)
ConciseEnter ==
  /\ cj_pc = "call"
  /\ cj_pc' = "describe"
  /\ raw' = stripMetadataFromDescription(cj_job.description)
  /\ pj_pc' = "call"
  /\ UNCHANGED <<trimmed, patIdx, lastIndex, matches, pj_result, pass, firstResult>>
  /\ UNCHANGED <<cj_job, cj_trending, cj_parts, cj_message>>

\* lines 1018-1037: parseJobDescription has returned; the message
ConciseReturn ==
  /\ cj_pc = "describe"
  /\ pj_pc = "done"
  /\ \E parts \in { ConciseParts(cj_job, cj_trending, pj_result) } :
       /\ cj_parts' = parts
       /\ cj_message' = ConciseMessage(parts)
  /\ cj_pc' = "done"
  /\ UNCHANGED <<cj_job, cj_trending>>
  /\ UNCHANGED parseVars

NextConcise ==
  \/ ConciseEnter /\ UNCHANGED <<splitVars, pasteVars, tagVars, applyVars, againVars, statusVars, composeVars, serverVars>>
  \/ ConciseReturn /\ UNCHANGED <<splitVars, pasteVars, tagVars, applyVars, againVars, statusVars, composeVars, serverVars>>
  \/ ParseEnter /\ UNCHANGED <<splitVars, pasteVars, formatVars>>
  \/ ExecStep /\ UNCHANGED <<splitVars, pasteVars, formatVars>>
  \/ HeapExhausted /\ UNCHANGED <<splitVars, pasteVars, formatVars>>
  \/ ParseReturn /\ UNCHANGED <<splitVars, pasteVars, formatVars>>

SpecConcise == InitConcise /\ [][NextConcise]_vars

-----------------------------------------------------------------------------
(* The job queue *)

\* everything that is not the store and not a request handler
clientVars ==
  <<splitVars, parseVars, pasteVars, tagVars, applyVars, againVars, statusVars,
    composeVars, conciseVars>>

IdleClient ==
  /\ IdleSplit
  /\ IdleParse
  /\ IdlePaste
  /\ IdleTags
  /\ IdleApply
  /\ IdleAgain
  /\ IdleStatus
  /\ IdleCompose
  /\ IdleConcise

MaxBatch == 2

\* the ids of the scraped jobs
JobIds == {"j1", "j2", "j3", "j4"}

\* the lists of at most n ids
RECURSIVE IdLists(_)
IdLists(n) ==
  IF n = 0 THEN {<<>>}
  ELSE IdLists(n - 1) \cup {l \o <<id>> : l \in IdLists(n - 1), id \in JobIds}

\* an id that is posted is added to the queue all the same
AddedThoughPosted(id, pending, posted) == id \notin pending

\* lines 42-52 of addJobsForToday: the job is neither posted nor pending
ToBeAdded(id, pending, posted) == id \notin posted /\ id \notin pending

\* the loop of addJobsForToday over jobs[i..]: the pending set and the stored
\* ids it leaves
RECURSIVE AddLoop(_, _, _, _, _)
AddLoop(jobs, i, pending, posted, stored) ==
  IF i > Len(jobs) THEN [pending |-> pending, stored |-> stored]
  ELSE IF ToBeAdded(jobs[i], pending, posted)
       THEN AddLoop(jobs, i + 1, pending \cup {jobs[i]}, posted, stored \cup {jobs[i]})
       ELSE AddLoop(jobs, i + 1, pending, posted, stored)

\* addJobsForToday(jobs), run alone
AddJobsForToday(jobs) ==
  /\ \E r \in {AddLoop(jobs, 1, q_pending, q_posted, q_stored)} :
       /\ q_pending' = r.pending
       /\ q_stored' = r.stored
  /\ q_last' = [op |-> "addJobsForToday", ids |-> jobs]
  /\ UNCHANGED <<q_posted, q_history>>

\* the ids of a list
IdsOf(list) == {list[i] : i \in 1..Len(list)}

\* markAsPosted(jobIds), run alone
MarkAsPosted(jobIds) ==
  /\ q_posted' = q_posted \cup IdsOf(jobIds)
  /\ q_pending' = q_pending \ IdsOf(jobIds)
  /\ q_history' = q_history \cup IdsOf(jobIds)
  /\ q_last' = [op |-> "markAsPosted", ids |-> jobIds]
  /\ UNCHANGED q_stored

\* clearPendingQueue(), run alone
ClearPendingQueue ==
  /\ q_pending' = {}
  /\ q_last' = [op |-> "clearPendingQueue", ids |-> <<>>]
  /\ UNCHANGED <<q_posted, q_history, q_stored>>

InitQueue ==
  /\ IdleQueue
  /\ IdleAuto
  /\ IdleTwitter
  /\ IdlePost
  /\ IdleClient

NextQueue ==
  \/ \E jobs \in IdLists(MaxBatch) : AddJobsForToday(jobs) /\ UNCHANGED <<clientVars, autoVars, twitterVars, postVars>>
  \/ \E jobIds \in IdLists(MaxBatch) : MarkAsPosted(jobIds) /\ UNCHANGED <<clientVars, autoVars, twitterVars, postVars>>
  \/ ClearPendingQueue /\ UNCHANGED <<clientVars, autoVars, twitterVars, postVars>>

SpecQueue == InitQueue /\ [][NextQueue]_vars

-----------------------------------------------------------------------------
(* The auto-post handler, the scrape handler and the clear-queue handler *)

\* EXCLUDED_JOB_TITLES
EXCLUDED_JOB_TITLES ==
  << <<"D", "r", "i", "v", "e", "r">>,
     <<"C", "l", "e", "a", "n", "e", "r">>,
     <<"N", "a", "n", "n", "y">>,
     <<"C", "o", "o", "k">>,
     <<"S", "e", "c", "u", "r", "i", "t", "y">> >>

\* isJobExcluded(title)
isJobExcluded(title) ==
  \E k \in 1..Len(EXCLUDED_JOB_TITLES) :
    IncludesLower(Trim(title), LowerAll(EXCLUDED_JOB_TITLES[k]))

\* the scraped jobs, by id: the title and the description of each
ScrapedJobs ==
  [id \in JobIds |->
     CASE id = "j1" -> [title |-> <<"B", "a", "c", "k", "e", "n", "d", " ", "E", "n", "g", "i", "n", "e", "e", "r">>, description |-> <<"W", "e", " ", "b", "u", "i", "l", "d", " ", "A", "P", "I", "s">>]
       [] id = "j2" -> [title |-> <<"H", "e", "a", "d", " ", "C", "o", "o", "k">>, description |-> <<"W", "e", " ", "c", "o", "o", "k">>]
       [] id = "j3" -> [title |-> <<"D", "a", "t", "a", " ", "A", "n", "a", "l", "y", "s", "t">>, description |-> <<"O", "v", "e", "r", "v", "i", "e", "w", ":", "x">>]
       [] OTHER -> [title |-> <<"S", "a", "l", "e", "s", " ", "L", "e", "a", "d">>, description |-> <<"W", "e", " ", "s", "e", "l", "l">>]]

\* srandmember(pendingKey, 10) on a set of fewer than 10 ids: all of them, in
\* any order
Orders(set) ==
  {f \in [1..Cardinality(set) -> set] :
     \A a, b \in 1..Cardinality(set) : a # b => f[a] # f[b]}

\* lines 84-93 of getTodaysUnpostedJobs: the ids that have job data
WithJobData(ids) == SelectSeq(ids, LAMBDA id : id \in q_stored)

\* the first two jobs, whatever their titles
FirstTwo(jobs) == SubSeq(jobs, 1, Min2(2, Len(jobs)))

\* jobs.filter((j) => !isJobExcluded(j.title)).slice(0, 2)
Postable(jobs) ==
  CHOOSE out \in
    { SubSeq(kept, 1, Min2(2, Len(kept))) :
        kept \in { SelectSeq(jobs, LAMBDA id : ~isJobExcluded(ScrapedJobs[id].title)) } } :
    TRUE

\* the code between two awaits runs without another handler in between: an
\* invocation is in such a stretch
SyncPcs == {"formatTwitter", "formattingTwitter", "formatTelegram", "formattingTelegram"}

Busy == \E i \in Invocations : au_inv[i].pc \in SyncPcs

\* lines 90-101: getTodaysUnpostedJobs(10), the filter, the early return
Fetch(i) ==
  /\ au_inv[i].pc = "start"
  /\ ~Busy
  /\ \E ids \in Orders(q_pending) :
       \E postable \in {Postable(WithJobData(ids))} :
         au_inv' = [au_inv EXCEPT ![i] =
                      IF postable = <<>>
                      THEN [@ EXCEPT !.pc = "done", !.response = "skipped"]
                      ELSE [@ EXCEPT !.pc = "formatTwitter", !.postable = postable, !.k = 1]]
  /\ UNCHANGED <<au_attempts, au_published, sc, cl_pc, queueVars>>
  /\ UNCHANGED <<clientVars, twitterVars, postVars>>

\* lines 118 and 152: formatConciseTwitterJob(conciseJob) up to its call of
\* parseJobDescription(sanitized)
FormatTwitter(i) ==
  /\ au_inv[i].pc = "formatTwitter"
  /\ au_inv' = [au_inv EXCEPT ![i].pc = "formattingTwitter"]
  /\ raw' = stripMetadataFromDescription(ScrapedJobs[au_inv[i].postable[au_inv[i].k]].description)
  /\ pj_pc' = "call"
  /\ UNCHANGED <<trimmed, patIdx, lastIndex, matches, pj_result, pass, firstResult>>
  /\ UNCHANGED <<au_attempts, au_published, sc, cl_pc, queueVars>>
  /\ UNCHANGED <<splitVars, pasteVars, tagVars, applyVars, againVars, statusVars, composeVars, conciseVars, twitterVars, postVars>>

\* formatConciseTwitterJob returns; the text of the message plays no part in
\* what the handler does next
FormatTwitterReturn(i) ==
  /\ au_inv[i].pc = "formattingTwitter"
  /\ pj_pc = "done"
  /\ au_inv' = [au_inv EXCEPT ![i].pc = "formatTelegram"]
  /\ UNCHANGED <<au_attempts, au_published, sc, cl_pc, queueVars>>
  /\ UNCHANGED <<clientVars, twitterVars, postVars>>

\* lines 119 and 153: formatConciseTelegramJob(conciseJob) up to its call of
\* parseJobDescription(sanitized)
FormatTelegram(i) ==
  /\ au_inv[i].pc = "formatTelegram"
  /\ au_inv' = [au_inv EXCEPT ![i].pc = "formattingTelegram"]
  /\ raw' = stripMetadataFromDescription(ScrapedJobs[au_inv[i].postable[au_inv[i].k]].description)
  /\ pj_pc' = "call"
  /\ UNCHANGED <<trimmed, patIdx, lastIndex, matches, pj_result, pass, firstResult>>
  /\ UNCHANGED <<au_attempts, au_published, sc, cl_pc, queueVars>>
  /\ UNCHANGED <<splitVars, pasteVars, tagVars, applyVars, againVars, statusVars, composeVars, conciseVars, twitterVars, postVars>>

\* the job is posted, with dryRun or without
PostsAnyway(inv) == [inv EXCEPT !.pc = "postToTwitter"]

\* lines 103-127 and 152-158: with dryRun the messages go into the preview,
\* without it to the posting clients
AfterFormatting(inv) ==
  IF ~inv.dryRun THEN [inv EXCEPT !.pc = "postToTwitter"]
  ELSE IF inv.k < Len(inv.postable)
       THEN [inv EXCEPT !.pc = "formatTwitter", !.k = @ + 1]
  ELSE [inv EXCEPT !.pc = "done", !.response = "preview"]

\* formatConciseTelegramJob returns: with dryRun the next job of the preview
\* or the response (lines 103-127), else the call of postToTwitter (line 158)
FormatTelegramReturn(i) ==
  /\ au_inv[i].pc = "formattingTelegram"
  /\ pj_pc = "done"
  /\ au_inv' = [au_inv EXCEPT ![i] = AfterFormatting(@)]
  /\ UNCHANGED <<au_attempts, au_published, sc, cl_pc, queueVars>>
  /\ UNCHANGED <<clientVars, twitterVars, postVars>>

\* line 158: await postToTwitter(twitterMessage); the platform accepts or not
PostToTwitter(i) ==
  /\ au_inv[i].pc = "postToTwitter"
  /\ ~Busy
  /\ \E ok \in BOOLEAN :
       /\ au_inv' = [au_inv EXCEPT ![i].pc = "postToTelegram",
                                   ![i].twitter = IF ok THEN "success" ELSE "failed"]
       /\ au_published' = IF ok
                          THEN au_published \cup {<<i, au_inv[i].postable[au_inv[i].k], "twitter">>}
                          ELSE au_published
  /\ au_attempts' = au_attempts \cup {<<i, au_inv[i].postable[au_inv[i].k], "twitter">>}
  /\ UNCHANGED <<sc, cl_pc, queueVars>>
  /\ UNCHANGED <<clientVars, twitterVars, postVars>>

\* a job is marked whatever the platforms said
AlwaysMarked(twitter, telegram) == TRUE

\* line 184: twitterResult.success || telegramResult.success
OnePlatformSucceeded(twitter, telegram) == twitter = "success" \/ telegram = "success"

\* lines 161-197: await postToTelegram(telegramMessage), the result, the id
\* pushed on success, then the delay, the first sadd of markAsPosted or the
\* response
AfterTelegram(inv, telegram) ==
  CHOOSE next \in
    { IF inv.k < Len(inv.postable)
      THEN [inv EXCEPT !.pc = "delay", !.telegram = telegram, !.postedJobIds = marked]
      ELSE IF marked # <<>>
           THEN [inv EXCEPT !.pc = "sadd", !.telegram = telegram, !.postedJobIds = marked, !.m = 1]
      ELSE [inv EXCEPT !.pc = "done", !.telegram = telegram, !.response = "posted"] :
        marked \in { IF OnePlatformSucceeded(inv.twitter, telegram)
                     THEN Append(inv.postedJobIds, inv.postable[inv.k])
                     ELSE inv.postedJobIds } } : TRUE

PostToTelegram(i) ==
  /\ au_inv[i].pc = "postToTelegram"
  /\ ~Busy
  /\ \E ok \in BOOLEAN :
       /\ au_inv' = [au_inv EXCEPT ![i] = AfterTelegram(@, IF ok THEN "success" ELSE "failed")]
       /\ au_published' = IF ok
                          THEN au_published \cup {<<i, au_inv[i].postable[au_inv[i].k], "telegram">>}
                          ELSE au_published
  /\ au_attempts' = au_attempts \cup {<<i, au_inv[i].postable[au_inv[i].k], "telegram">>}
  /\ UNCHANGED <<sc, cl_pc, queueVars>>
  /\ UNCHANGED <<clientVars, twitterVars, postVars>>

\* lines 189-191: the delay between two jobs is over
Delay(i) ==
  /\ au_inv[i].pc = "delay"
  /\ ~Busy
  /\ au_inv' = [au_inv EXCEPT ![i].pc = "formatTwitter", ![i].k = @ + 1,
                              ![i].twitter = "none", ![i].telegram = "none"]
  /\ UNCHANGED <<au_attempts, au_published, sc, cl_pc, queueVars>>
  /\ UNCHANGED <<clientVars, twitterVars, postVars>>

\* jobQueue.ts line 106: redis.sadd(KEYS.POSTED_ALL, id)
MarkSadd(i) ==
  /\ au_inv[i].pc = "sadd"
  /\ ~Busy
  /\ q_posted' = q_posted \cup {au_inv[i].postedJobIds[au_inv[i].m]}
  /\ au_inv' = [au_inv EXCEPT ![i].pc = "srem"]
  /\ UNCHANGED <<q_pending, q_history, q_stored, q_last>>
  /\ UNCHANGED <<au_attempts, au_published, sc, cl_pc>>
  /\ UNCHANGED <<clientVars, twitterVars, postVars>>

\* jobQueue.ts line 109: redis.srem(pendingKey, id)
MarkSrem(i) ==
  /\ au_inv[i].pc = "srem"
  /\ ~Busy
  /\ q_pending' = q_pending \ {au_inv[i].postedJobIds[au_inv[i].m]}
  /\ au_inv' = [au_inv EXCEPT ![i].pc = "hset"]
  /\ UNCHANGED <<q_posted, q_history, q_stored, q_last>>
  /\ UNCHANGED <<au_attempts, au_published, sc, cl_pc>>
  /\ UNCHANGED <<clientVars, twitterVars, postVars>>

\* jobQueue.ts lines 112-118: redis.hset(historyKey, ...), then the next id or
\* the expire and the response of the handler
MarkHset(i) ==
  /\ au_inv[i].pc = "hset"
  /\ ~Busy
  /\ q_history' = q_history \cup {au_inv[i].postedJobIds[au_inv[i].m]}
  /\ au_inv' = [au_inv EXCEPT ![i] =
                  IF @.m < Len(@.postedJobIds)
                  THEN [@ EXCEPT !.pc = "sadd", !.m = @ + 1]
                  ELSE [@ EXCEPT !.pc = "done", !.response = "posted"]]
  /\ UNCHANGED <<q_pending, q_posted, q_stored, q_last>>
  /\ UNCHANGED <<au_attempts, au_published, sc, cl_pc>>
  /\ UNCHANGED <<clientVars, twitterVars, postVars>>

\* the lists of jobs a scrape finds
ScrapeLists == { <<"j1">>, <<"j3", "j1">> }

\* scrape/route.ts line 155: addJobsForToday(jobs) is called
ScrapeStart ==
  /\ sc.pc = "idle"
  /\ ~Busy
  /\ \E jobs \in ScrapeLists : sc' = [pc |-> "isJobPosted", jobs |-> jobs, i |-> 1]
  /\ UNCHANGED <<au_inv, au_attempts, au_published, cl_pc, queueVars>>
  /\ UNCHANGED <<clientVars, twitterVars, postVars>>

\* the loop of addJobsForToday goes to the next job, or ends
NextJob(scrape) ==
  IF scrape.i < Len(scrape.jobs)
  THEN [scrape EXCEPT !.pc = "isJobPosted", !.i = @ + 1]
  ELSE [scrape EXCEPT !.pc = "done"]

\* jobQueue.ts lines 43-46: await isJobPosted(job.id)
ScrapeIsPosted ==
  /\ sc.pc = "isJobPosted"
  /\ ~Busy
  /\ sc' = IF sc.jobs[sc.i] \in q_posted THEN NextJob(sc)
           ELSE [sc EXCEPT !.pc = "inPending"]
  /\ UNCHANGED <<au_inv, au_attempts, au_published, cl_pc, queueVars>>
  /\ UNCHANGED <<clientVars, twitterVars, postVars>>

\* jobQueue.ts lines 49-52: await redis.sismember(pendingKey, job.id)
ScrapeInPending ==
  /\ sc.pc = "inPending"
  /\ ~Busy
  /\ sc' = IF sc.jobs[sc.i] \in q_pending THEN NextJob(sc)
           ELSE [sc EXCEPT !.pc = "set"]
  /\ UNCHANGED <<au_inv, au_attempts, au_published, cl_pc, queueVars>>
  /\ UNCHANGED <<clientVars, twitterVars, postVars>>

\* jobQueue.ts line 55: await redis.set(KEYS.JOB_DATA(job.id), ...)
ScrapeSet ==
  /\ sc.pc = "set"
  /\ ~Busy
  /\ q_stored' = q_stored \cup {sc.jobs[sc.i]}
  /\ sc' = [sc EXCEPT !.pc = "sadd"]
  /\ UNCHANGED <<q_pending, q_posted, q_history, q_last>>
  /\ UNCHANGED <<au_inv, au_attempts, au_published, cl_pc>>
  /\ UNCHANGED <<clientVars, twitterVars, postVars>>

\* jobQueue.ts lines 58-63: await redis.sadd(pendingKey, job.id), the expire
ScrapeSadd ==
  /\ sc.pc = "sadd"
  /\ ~Busy
  /\ q_pending' = q_pending \cup {sc.jobs[sc.i]}
  /\ sc' = NextJob(sc)
  /\ UNCHANGED <<q_posted, q_history, q_stored, q_last>>
  /\ UNCHANGED <<au_inv, au_attempts, au_published, cl_pc>>
  /\ UNCHANGED <<clientVars, twitterVars, postVars>>

\* jobQueue.ts lines 210-211 for POST /api/queue/clear: scard, then del
ClearQueue ==
  /\ cl_pc = "idle"
  /\ ~Busy
  /\ q_pending' = {}
  /\ cl_pc' = "done"
  /\ UNCHANGED <<q_posted, q_history, q_stored, q_last>>
  /\ UNCHANGED <<au_inv, au_attempts, au_published, sc>>
  /\ UNCHANGED <<clientVars, twitterVars, postVars>>

\* one invocation, requested with or without dryRun
Requested(dryRun) == [NoInvocation EXCEPT !.pc = "start", !.dryRun = dryRun]

\* one auto-post request on a queue that an earlier scrape has filled
InitAutoPost ==
  /\ q_pending \in SUBSET JobIds
  /\ q_stored = q_pending
  /\ q_posted = {}
  /\ q_history = {}
  /\ q_last = NoCall
  /\ \E dryRun \in BOOLEAN :
       au_inv = [i \in Invocations |-> IF i = 1 THEN Requested(dryRun) ELSE NoInvocation]
  /\ au_attempts = {}
  /\ au_published = {}
  /\ sc = NoScrape
  /\ cl_pc = "off"
  /\ IdleTwitter
  /\ IdlePost
  /\ IdleClient

\* the steps of the invocations
InvocationStep ==
  \E i \in Invocations :
    \/ Fetch(i)
    \/ FormatTwitter(i)
    \/ FormatTwitterReturn(i)
    \/ FormatTelegram(i)
    \/ FormatTelegramReturn(i)
    \/ PostToTwitter(i)
    \/ PostToTelegram(i)
    \/ Delay(i)
    \/ MarkSadd(i)
    \/ MarkSrem(i)
    \/ MarkHset(i)

\* parseJobDescription runs inside a formatter
FormatterStep ==
  \/ ParseEnter /\ UNCHANGED <<splitVars, pasteVars, formatVars>>
  \/ ExecStep /\ UNCHANGED <<splitVars, pasteVars, formatVars>>
  \/ HeapExhausted /\ UNCHANGED <<splitVars, pasteVars, formatVars>>
  \/ ParseReturn /\ UNCHANGED <<splitVars, pasteVars, formatVars>>

NextAutoPost == InvocationStep \/ FormatterStep

SpecAutoPost == InitAutoPost /\ [][NextAutoPost]_vars

\* the engine keeps running the request
FairSpecAutoPost == SpecAutoPost /\ WF_vars(NextAutoPost)

\* two auto-post requests, a scrape and a clear-queue request, in any order
InitRace ==
  /\ q_pending \in SUBSET {"j1", "j3"}
  /\ q_stored = q_pending
  /\ q_posted = {}
  /\ q_history = {}
  /\ q_last = NoCall
  /\ au_inv = [i \in Invocations |-> Requested(FALSE)]
  /\ au_attempts = {}
  /\ au_published = {}
  /\ sc = [NoScrape EXCEPT !.pc = "idle"]
  /\ cl_pc = "idle"
  /\ IdleTwitter
  /\ IdlePost
  /\ IdleClient

NextRace ==
  \/ InvocationStep
  \/ FormatterStep
  \/ ScrapeStart
  \/ ScrapeIsPosted
  \/ ScrapeInPending
  \/ ScrapeSet
  \/ ScrapeSadd
  \/ ClearQueue

SpecRace == InitRace /\ [][NextRace]_vars

-----------------------------------------------------------------------------
(* postToTwitter, in the two versions of the repository *)

\* ids the platform hands out: the n-th published tweet gets the id n, the
\* uploaded image the media id 1; 0 stands for undefined
Undefined == 0

\* the threshold of the single-tweet path: X_CHAR_LIMIT in src/lib/twitter.ts,
\* getXCharLimit() in part_005
SingleTweetLimit(version) == IF version = "part_005" THEN getXCharLimit ELSE X_CHAR_LIMIT

\* the published tweets among the calls of the client
IsPublished(c) == c.call = "tweet" /\ c.ok

Published == SelectSeq(tw_api, IsPublished)

\* the image goes with every tweet of the thread
MediaOnAll(chunk, isFirstTweet, previousTweetId, mediaId) ==
  [call |-> "tweet", text |-> chunk, reply |-> previousTweetId, media |-> mediaId]

\* tweetData of one turn of the loop: text, reply, media
TweetData(chunk, isFirstTweet, previousTweetId, mediaId) ==
  [call |-> "tweet", text |-> chunk, reply |-> previousTweetId,
   media |-> IF isFirstTweet /\ mediaId # Undefined THEN mediaId ELSE Undefined]

\* the error leaves the function
Rethrown(message) == [returned |-> TRUE, thrown |-> TRUE]

\* the catch block: { success: false, error: errorMessage }
Caught(message) == [returned |-> TRUE, success |-> FALSE, error |-> message]

\* { success: true, tweetIds }
Succeeded(tweetIds) == [returned |-> TRUE, success |-> TRUE, tweetIds |-> tweetIds]

\* the client call fails with this message
ApiError == "Request failed"

\* tweetIds.push(tweet.data.id); previousTweetId = tweet.data.id; then the
\* next turn of the loop or the end of it
AfterTweet(call, id) ==
  IF call.i < Len(call.chunks)
  THEN [call EXCEPT !.i = @ + 1, !.previousTweetId = id, !.tweetIds = Append(@, id)]
  ELSE [call EXCEPT !.pc = "done", !.previousTweetId = id, !.tweetIds = Append(@, id)]

\* the test of the single-tweet path, then either the single tweet, the upload
\* or splitIntoThread(message)
TwitterBegin ==
  /\ tw.pc = "start"
  /\ tw' = IF Len(tw.message) <= SingleTweetLimit(tw.version) /\ ~tw.imageBase64
           THEN [tw EXCEPT !.pc = "single"]
           ELSE IF tw.imageBase64 THEN [tw EXCEPT !.pc = "uploadMedia"]
           ELSE [tw EXCEPT !.pc = "tweet", !.chunks = splitIntoThread(tw.message), !.i = 1]
  /\ UNCHANGED <<tw_api, tw_result>>
  /\ UNCHANGED <<clientVars, queueVars, autoVars, postVars>>

\* await rwClient.v2.tweet(message) of the single-tweet path
SingleTweet ==
  /\ tw.pc = "single"
  /\ \E ok \in BOOLEAN :
       /\ tw_api' = Append(tw_api, [call |-> "tweet", text |-> tw.message, reply |-> Undefined,
                                    media |-> Undefined, ok |-> ok, id |-> IF ok THEN 1 ELSE Undefined])
       /\ tw_result' = IF ok THEN Succeeded(<<1>>) ELSE Caught(ApiError)
  /\ tw' = [tw EXCEPT !.pc = "done"]
  /\ UNCHANGED <<clientVars, queueVars, autoVars, postVars>>

\* await client.v1.uploadMedia(buffer, ...), then splitIntoThread(message)
UploadMedia ==
  /\ tw.pc = "uploadMedia"
  /\ \E ok \in BOOLEAN :
       /\ tw_api' = Append(tw_api, [call |-> "uploadMedia", text |-> <<>>, reply |-> Undefined,
                                    media |-> Undefined, ok |-> ok, id |-> IF ok THEN 1 ELSE Undefined])
       /\ tw' = IF ok
                THEN [tw EXCEPT !.pc = "tweet", !.mediaId = 1,
                                !.chunks = splitIntoThread(tw.message), !.i = 1]
                ELSE [tw EXCEPT !.pc = "done"]
       /\ tw_result' = IF ok THEN tw_result ELSE Caught(ApiError)
  /\ UNCHANGED <<clientVars, queueVars, autoVars, postVars>>

\* one turn of the loop over the chunks: await rwClient.v2.tweet(tweetData)
ThreadTweet ==
  /\ tw.pc = "tweet"
  /\ \E ok \in BOOLEAN, id \in {Len(Published) + 1} :
       \E data \in {TweetData(tw.chunks[tw.i], tw.i = 1, tw.previousTweetId, tw.mediaId)} :
         /\ tw_api' = Append(tw_api, [call |-> "tweet", text |-> data.text, reply |-> data.reply,
                                      media |-> data.media, ok |-> ok,
                                      id |-> IF ok THEN id ELSE Undefined])
         /\ tw' = IF ok THEN AfterTweet(tw, id) ELSE [tw EXCEPT !.pc = "done"]
         /\ tw_result' = IF ~ok THEN Caught(ApiError)
                         ELSE IF tw.i < Len(tw.chunks) THEN tw_result
                         ELSE Succeeded(Append(tw.tweetIds, id))
  /\ UNCHANGED <<clientVars, queueVars, autoVars, postVars>>

\* the messages handed to postToTwitter: one tweet, two chunks, three chunks
TwitterMessages ==
  { <<"W", "e", " ", "a", "r", "e", " ", "h", "i", "r", "i", "n", "g">>,
    UnbrokenText,
    Rep("a", 200) \o <<".", " ">> \o Rep("b", 200) \o <<" ">> \o Rep("c", 250),
    Rep("A", 600) }

InitTwitter ==
  /\ IdleQueue
  /\ IdleAuto
  /\ IdlePost
  /\ IdleParse
  /\ IdlePaste
  /\ IdleTags
  /\ IdleApply
  /\ IdleAgain
  /\ IdleStatus
  /\ IdleCompose
  /\ IdleConcise
  /\ premium \in BOOLEAN
  /\ text = <<>>
  /\ st_pc = "idle"
  /\ st_result = <<>>
  /\ \E version \in {"twitter.ts", "part_005"}, message \in TwitterMessages, imageBase64 \in BOOLEAN :
       tw = [NoTwitterCall EXCEPT !.pc = "start", !.version = version, !.message = message,
                                  !.imageBase64 = imageBase64]
  /\ tw_api = <<>>
  /\ tw_result = NotReturned

NextTwitter ==
  \/ TwitterBegin
  \/ SingleTweet
  \/ UploadMedia
  \/ ThreadTweet

SpecTwitter == InitTwitter /\ [][NextTwitter]_vars

-----------------------------------------------------------------------------
(* POST /api/post *)

HTTP_PREFIX == <<"h", "t", "t", "p", ":", "/", "/">>

HTTPS_PREFIX == <<"h", "t", "t", "p", "s", ":", "/", "/">>

\* the host of an http(s) URL: what follows the prefix, up to '/', '?' or '#'
RECURSIVE HostFrom(_, _)
HostFrom(val, k) ==
  IF k > Len(val) \/ val[k] \in {"/", "?", "#"} THEN <<>>
  ELSE <<val[k]>> \o HostFrom(val, k + 1)

\* new URL(val) does not throw, for a trimmed val with a protocol: a mailto:
\* URL always parses, an http(s) URL needs a host without a space
UrlParses(val) ==
  IF StartsWithAt(val, MAILTO, 0) THEN TRUE
  ELSE \E host \in { HostFrom(val, (IF StartsWithAt(val, HTTPS_PREFIX, 0) THEN 8 ELSE 7) + 1) } :
         host # <<>> /\ \A k \in 1..Len(host) : host[k] # " "

\* the errors validateJobData pushes for the apply link
ApplyLinkErrors(val) ==
  IF val = <<>> THEN <<>>
  ELSE IF IsPlainEmail(val) THEN <<>>
  ELSE IF StartsWithAt(val, HTTP_PREFIX, 0) \/ StartsWithAt(val, HTTPS_PREFIX, 0)
          \/ StartsWithAt(val, MAILTO, 0)
       THEN (IF UrlParses(val) THEN <<>>
             ELSE <<"Apply link must be a valid URL or email address">>)
  ELSE <<"Apply link must be a valid URL (include https://) or email address">>

\* validateJobData(job)
validateJobData(j) ==
  CHOOSE v \in
    { [valid |-> errors = <<>>, errors |-> errors] :
        errors \in { (IF Trim(j.title) = <<>> THEN <<"Job title is required">> ELSE <<>>)
                     \o (IF Trim(j.description) = <<>> THEN <<"Description is required">> ELSE <<>>)
                     \o (IF Trim(j.applyLink) = <<>>
                         THEN <<"Apply link or email is required">> ELSE <<>>)
                     \o ApplyLinkErrors(Trim(j.applyLink)) } } : TRUE

\* every job is let through
NoRejection(j) == <<>>

\* the errors of the two 400 responses: those of the validation, or the
\* message for an excluded title; none when the handler goes on
Rejection(j) ==
  IF ~validateJobData(j).valid THEN validateJobData(j).errors
  ELSE IF isJobExcluded(j.title) THEN <<"This job type is excluded from posting">>
  ELSE <<>>

\* lines 41-67: the body of the request, the validation, the exclusion
PostValidate ==
  /\ po.pc = "start"
  /\ \E errors \in {Rejection(po.job)} :
       /\ po' = [po EXCEPT !.pc = IF errors = <<>> THEN "twitter" ELSE "done"]
       /\ po_response' = IF errors = <<>> THEN po_response
                         ELSE [status |-> 400, success |-> FALSE, errors |-> errors]
  /\ UNCHANGED po_calls
  /\ UNCHANGED <<clientVars, queueVars, autoVars, twitterVars>>

\* lines 73-74: platforms.includes('twitter'), then formatTwitterMessage(job)
\* up to its call of parseJobDescription(job.description)
PostFormatTwitter ==
  /\ po.pc = "twitter"
  /\ IF "twitter" \in po.platforms
     THEN /\ po' = [po EXCEPT !.pc = "formattingTwitter"]
          /\ raw' = po.job.description
          /\ pj_pc' = "call"
     ELSE /\ po' = [po EXCEPT !.pc = "telegram"]
          /\ UNCHANGED <<raw, pj_pc>>
  /\ UNCHANGED <<trimmed, patIdx, lastIndex, matches, pj_result, pass, firstResult>>
  /\ UNCHANGED <<po_calls, po_response>>
  /\ UNCHANGED <<splitVars, pasteVars, tagVars, applyVars, againVars, statusVars, composeVars, conciseVars>>
  /\ UNCHANGED <<queueVars, autoVars, twitterVars>>

\* lines 75-84: formatTwitterMessage has returned; await postToTwitter(...)
PostTwitter ==
  /\ po.pc = "formattingTwitter"
  /\ pj_pc = "done"
  /\ \E ok \in BOOLEAN :
       po' = [po EXCEPT !.pc = "telegram", !.hasSuccess = @ \/ ok]
  /\ po_calls' = Append(po_calls, "twitter")
  /\ UNCHANGED po_response
  /\ UNCHANGED <<clientVars, queueVars, autoVars, twitterVars>>

\* lines 88-89: platforms.includes('telegram'), then formatTelegramMessage(job)
\* up to its call of parseJobDescription(job.description)
PostFormatTelegram ==
  /\ po.pc = "telegram"
  /\ IF "telegram" \in po.platforms
     THEN /\ po' = [po EXCEPT !.pc = "formattingTelegram"]
          /\ raw' = po.job.description
          /\ pj_pc' = "call"
     ELSE /\ po' = [po EXCEPT !.pc = "respond"]
          /\ UNCHANGED <<raw, pj_pc>>
  /\ UNCHANGED <<trimmed, patIdx, lastIndex, matches, pj_result, pass, firstResult>>
  /\ UNCHANGED <<po_calls, po_response>>
  /\ UNCHANGED <<splitVars, pasteVars, tagVars, applyVars, againVars, statusVars, composeVars, conciseVars>>
  /\ UNCHANGED <<queueVars, autoVars, twitterVars>>

\* lines 90-98: formatTelegramMessage has returned; await postToTelegram(...)
PostTelegram ==
  /\ po.pc = "formattingTelegram"
  /\ pj_pc = "done"
  /\ \E ok \in BOOLEAN :
       po' = [po EXCEPT !.pc = "respond", !.hasSuccess = @ \/ ok]
  /\ po_calls' = Append(po_calls, "telegram")
  /\ UNCHANGED po_response
  /\ UNCHANGED <<clientVars, queueVars, autoVars, twitterVars>>

\* lines 101-104: the response with success: hasSuccess
PostRespond ==
  /\ po.pc = "respond"
  /\ po' = [po EXCEPT !.pc = "done"]
  /\ po_response' = [status |-> 200, success |-> po.hasSuccess, errors |-> <<>>]
  /\ UNCHANGED po_calls
  /\ UNCHANGED <<clientVars, queueVars, autoVars, twitterVars>>

\* the jobs of the requests
PostTitles == { <<>>, <<" ", " ">>, <<"B", "a", "c", "k", "e", "n", "d", " ", "E", "n", "g", "i", "n", "e", "e", "r">>, <<"T", "a", "x", "i", " ", "D", "r", "i", "v", "e", "r">> }

PostDescriptions == { <<>>, <<"W", "e", " ", "b", "u", "i", "l", "d", " ", "A", "P", "I", "s">>, <<"O", "v", "e", "r", "v", "i", "e", "w", ":", "x">> }

PostApplyLinks ==
  { <<>>, <<"j", "o", "b", "s", "@", "a", "c", "m", "e", ".", "c", "o", "m">>, <<"h", "t", "t", "p", "s", ":", "/", "/", "a", "c", "m", "e", ".", "c", "o", "m", "/", "j", "o", "b", "s">>,
    <<"a", "c", "m", "e", ".", "c", "o", "m", "/", "j", "o", "b", "s">>, <<"h", "t", "t", "p", "s", ":", "/", "/">>, <<"m", "a", "i", "l", "t", "o", ":", "h", "r">> }

InitPost ==
  /\ IdleQueue
  /\ IdleAuto
  /\ IdleTwitter
  /\ IdleClient
  /\ \E title \in PostTitles, description \in PostDescriptions, applyLink \in PostApplyLinks,
        platforms \in SUBSET {"twitter", "telegram"} :
       po = [NoPostRequest EXCEPT
               !.pc = "start",
               !.job = [title |-> title, description |-> description, applyLink |-> applyLink],
               !.platforms = platforms]
  /\ po_calls = <<>>
  /\ po_response = NoResponse

NextPost ==
  \/ PostValidate
  \/ PostFormatTwitter
  \/ PostTwitter
  \/ PostFormatTelegram
  \/ PostTelegram
  \/ PostRespond
  \/ FormatterStep

SpecPost == InitPost /\ [][NextPost]_vars

\* the engine keeps running the request
FairSpecPost == SpecPost /\ WF_vars(NextPost)

-----------------------------------------------------------------------------
(* Properties of the thread splitter *)

SplitDone == st_pc = "done"
NeedsThread == Len(text) > getXCharLimit

EndsWith(s, suf) == StartsWithAt(s, suf, Len(s) - Len(suf))

IsNotWs(c) == c \notin WS
NonWs(s) == SelectSeq(s, IsNotWs)

\* chunk k of a thread without its " (k/n)" suffix
ChunkContent(res, k) ==
  LET suf == ThreadSuffix(k, Len(res))
  IN IF EndsWith(res[k], suf) THEN SubSeq(res[k], 1, Len(res[k]) - Len(suf))
     ELSE res[k]

\* the contents of chunks 1..k, concatenated
RECURSIVE ContentsUpTo(_, _)
ContentsUpTo(res, k) ==
  IF k = 0 THEN <<>> ELSE ContentsUpTo(res, k - 1) \o ChunkContent(res, k)

\* what the returned chunks carry once the suffixes are removed
ThreadContents ==
  IF NeedsThread THEN ContentsUpTo(st_result, Len(st_result))
  ELSE ContentsUpTo(st_result, 0) \o st_result[1]

\* C1: every chunk splitIntoThread returns is at most the character limit
\* long, its " (i/n)" suffix included.
C1_ChunksWithinLimit ==
  SplitDone => \A i \in 1..Len(st_result) : Len(st_result[i]) <= getXCharLimit

\* C2: for a text longer than the limit, chunk k of the result ends with
\* " (k/n)" where n is the number of chunks returned.
C2_SuffixesUseFinalCount ==
  (SplitDone /\ NeedsThread) =>
    \A k \in 1..Len(st_result) :
      EndsWith(st_result[k], ThreadSuffix(k, Len(st_result)))

\* C2's case: a thread whose final chunk count differs from the estimate
C2_Witness ==
  /\ SplitDone
  /\ NeedsThread
  /\ Len(st_result) > EstimatedChunks(text)

\* C8: a text no longer than the limit is returned as the one-element
\* sequence holding the text itself, untrimmed and without a suffix.
C8_ShortTextUnchanged ==
  (SplitDone /\ ~NeedsThread) => st_result = <<text>>

\* C8's case: a short text with white space at its ends has been split
C8_Witness ==
  /\ SplitDone
  /\ ~NeedsThread
  /\ Trim(text) # text

\* C9: the chunks without their suffixes, concatenated in order, hold the
\* non-white-space characters of the input, each once and in order.
C9_ContentPreserved ==
  SplitDone => NonWs(ThreadContents) = NonWs(text)

\* C9's case: a thread of three or more chunks that lost white space at a break
C9_Witness ==
  /\ SplitDone
  /\ Len(st_result) >= 3
  /\ Len(ThreadContents) < Len(text)

\* C21: at the limit 280 with the chunk target 270, a text of 300 'A' is split
\* into exactly 2 chunks, the first ending with " (1/2)" and at most 280
\* characters long, the second ending with " (2/2)".
C21_UnbrokenTextInTwoChunks ==
  (SplitDone /\ text = UnbrokenText /\ getXCharLimit = 280 /\ getXThreadLimit = 270) =>
    /\ Len(st_result) = 2
    /\ EndsWith(st_result[1], <<" ", "(", "1", "/", "2", ")">>)
    /\ Len(st_result[1]) <= 280
    /\ EndsWith(st_result[2], <<" ", "(", "2", "/", "2", ")">>)

\* C21's case: the text of 300 'A' has been split at the limit 280
C21_Witness ==
  /\ SplitDone
  /\ text = UnbrokenText
  /\ getXCharLimit = 280
  /\ getXThreadLimit = 270
  /\ Len(st_result) > 1

-----------------------------------------------------------------------------
(* Properties of the section parser *)

ParseDone == pj_pc = "done"

\* some pattern of SECTION_PATTERNS matches in t
HasHeading(t) ==
  \E i \in 1..Len(SECTION_PATTERNS) :
    RegExpExec(SECTION_PATTERNS[i].alts, SECTION_FLAGS, t, 0) # NoMatch

\* a first call is about to start on a text with a recognized heading
StructuredCall == pj_pc = "call" /\ pass = 1 /\ HasHeading(Trim(raw))

\* the 0-based positions where w starts a line of s
LineStartsOf(s, w) == {p \in 0..Len(s) : LineStart(s, p) /\ StartsWithAt(s, w, p)}

\* the rendered label line of a section
LabelLine(key) == sectionLabels[key] \o <<":", "\n">>

\* the first line of s that is the label of key, or -1
LabelPos(s, key) ==
  IF LineStartsOf(s, LabelLine(key)) = {} THEN -1
  ELSE CHOOSE p \in LineStartsOf(s, LabelLine(key)) :
         \A q \in LineStartsOf(s, LabelLine(key)) : p <= q

\* the labels of the sections that have content stand in SECTION_ORDER, and a
\* section without content has no label line
SectionsInOrder(s, sections) ==
  /\ \A i \in 1..4 : \A j \in (i + 1)..4 :
       (sections[SECTION_ORDER[i]] # <<>> /\ sections[SECTION_ORDER[j]] # <<>>) =>
         /\ LabelPos(s, SECTION_ORDER[i]) >= 0
         /\ LabelPos(s, SECTION_ORDER[i]) < LabelPos(s, SECTION_ORDER[j])
  /\ \A i \in 1..4 :
       sections[SECTION_ORDER[i]] = <<>> =>
         Cardinality(LineStartsOf(s, LabelLine(SECTION_ORDER[i])))
           <= Cardinality(LineStartsOf(trimmed, LabelLine(SECTION_ORDER[i])))

RECURSIVE SumNonWs(_)
SumNonWs(strs) ==
  IF strs = <<>> THEN 0
  ELSE SumNonWs(SubSeq(strs, 1, Len(strs) - 1)) + Len(NonWs(strs[Len(strs)]))

\* the non-white-space characters of the kept heading matches
HeadingChars(t, um) ==
  SumNonWs([i \in 1..Len(um) |-> Slice(t, um[i].index, um[i].index + um[i].length)])

\* the non-white-space characters of the labels the rendering adds
LabelChars(sections) ==
  SumNonWs([i \in 1..4 |->
    IF sections[SECTION_ORDER[i]] = <<>> THEN <<>> ELSE LabelLine(SECTION_ORDER[i])])

\* every character outside the kept headings is in exactly one section, and
\* the sections are what the result holds beside the labels
AllTextAccounted(s, t, um) ==
  /\ \A i \in 1..Len(um) : \A j \in 1..Len(um) : i # j => ~Overlaps(um[i], um[j])
  /\ SumNonWs([i \in 1..5 |-> Join(Sections(t, um)[SECTION_ORDER[i]], <<>>)])
       = Len(NonWs(t)) - HeadingChars(t, um)
  /\ (Len(NonWs(t)) > HeadingChars(t, um)) =>
       Len(NonWs(s)) = Len(NonWs(t)) - HeadingChars(t, um) + LabelChars(Sections(t, um))

\* C3: parseJobDescription terminates and returns a string for every input.
C3_ParseTerminates == <>ParseDone

\* C4: for a text with a recognized heading, parsing the result of
\* parseJobDescription again returns that result.
C4_ParseIdempotent ==
  StructuredCall ~> (ParseDone /\ pass = 2 /\ pj_result = firstResult)

\* C5 as stated: for a text in which no heading pattern matches,
\* parseJobDescription returns the trimmed text.
C5_NoHeadingGivesTrimmed ==
  (ParseDone /\ ~HasHeading(Trim(raw))) => pj_result = Trim(raw)

\* C5 as amended: for a text in which no heading pattern matches,
\* parseJobDescription returns the text itself, white space at its ends included.
C5_NoHeadingGivesRaw ==
  (ParseDone /\ ~HasHeading(Trim(raw))) => pj_result = raw

\* C5's case: a text without heading, not blank, with white space at an end,
\* has been parsed
C5_Witness ==
  /\ ParseDone
  /\ ~HasHeading(Trim(raw))
  /\ Trim(raw) # <<>>
  /\ Trim(raw) # raw

\* C6: for a text with headings the call returns a result whose sections stand
\* in the order about, responsibilities, requirements, benefits, other, and a
\* section without content leaves no label.
C6_SectionsInFixedOrder ==
  StructuredCall ~>
    (ParseDone /\ pass = 1 /\ Len(matches) > 0
       /\ SectionsInOrder(pj_result, Sections(trimmed, UniqueMatches(matches))))

\* C7: for a text with headings the call returns a result that accounts for
\* all of the text exactly once: overlapping heading matches are kept once and
\* every other character lies in exactly one section.
C7_AllTextAccountedOnce ==
  StructuredCall ~>
    (ParseDone /\ pass = 1 /\ Len(matches) > 0
       /\ AllTextAccounted(pj_result, trimmed, UniqueMatches(matches)))

-----------------------------------------------------------------------------
(* Properties of parsePastedJob *)

PasteDone == pp_pc = "done"

\* the first three entries of a list of tags
FirstThree(tags) == SubSeq(tags, 1, Min2(3, Len(tags)))

\* C11: for every input, the empty string included, the suggestedHashtags of
\* the returned record begin with hiring, jobopening, jobs, in that order.
C11_SeedHashtagsFirst ==
  PasteDone => FirstThree(job.suggestedHashtags) = <<"hiring", "jobopening", "jobs">>

\* C10: parsePastedJob returns a record whose location is never empty, for
\* every input, the empty and the blank string included.
C10_LocationNeverEmpty == PasteDone => job.location # <<>>

-----------------------------------------------------------------------------
(* Properties of generateJobHashtags *)

TagsDone == gh_pc = "done"

\* a tag without its leading '#', in lower case
Normalized(t) == LowerAll(IF t # <<>> /\ t[1] = "#" THEN Tail(t) ELSE t)

\* C12: generateJobHashtags returns no two entries that are equal after
\* stripping a leading '#' and lower-casing.
C12_NoDuplicateIgnoringCase ==
  TagsDone =>
    \A a, b \in 1..Len(gh_result) :
      a # b => Normalized(gh_result[a]) # Normalized(gh_result[b])

\* C13: generateJobHashtags returns at most 5 hashtags, whatever the length of
\* the trending list.
C13_AtMostFiveTags == TagsDone => Len(gh_result) <= 5

\* C13's case: more candidates than 5 (4 trending tags of which 3 are taken,
\* 5 or more job tags) and a full result
C13_Witness ==
  /\ TagsDone
  /\ Len(gh_trending) >= 4
  /\ Len(TrendingTaken(gh_trending)) = 3
  /\ Len(JobTags(gh_job)) >= 5
  /\ Len(gh_result) = 5

\* a is b with some entries left out
RECURSIVE IsSubsequence(_, _)
IsSubsequence(a, b) ==
  IF a = <<>> THEN TRUE
  ELSE IF b = <<>> THEN FALSE
  ELSE IF Head(a) = Head(b) THEN IsSubsequence(Tail(a), Tail(b))
  ELSE IsSubsequence(a, Tail(b))

\* the trending tags, those that pass the keyword filter first, each without
\* its '#'
RECURSIVE StripAll(_)
StripAll(list) ==
  IF list = <<>> THEN <<>> ELSE <<NormalizeTag(Head(list))>> \o StripAll(Tail(list))

PreferredTrending(trending) ==
  StripAll(SelectSeq(trending, LAMBDA t : TestWords(t, JOB_RELEVANT_KEYWORDS))
             \o SelectSeq(trending, LAMBDA t : ~TestWords(t, JOB_RELEVANT_KEYWORDS)))

InResult(tag) == \E k \in 1..Len(gh_result) : gh_result[k] = tag

-----------------------------------------------------------------------------
(* Properties of formatApplySection *)

\* the target is a plain e-mail address or starts with 'mailto:'
IsEmailTarget(target) ==
  \/ IsPlainEmail(Trim(target))
  \/ StartsWithAt(Trim(target), MAILTO, 0)

\* the address of an e-mail target
EmailOf(target) ==
  IF StartsWithAt(Trim(target), MAILTO, 0)
  THEN Trim(SubSeq(Trim(target), 8, Len(Trim(target))))
  ELSE Trim(target)

Contains(s, w) == \E p \in 0..Len(s) : StartsWithAt(s, w, p)

HasLinkMarkup(s) == Contains(s, <<"<", "a", " ">>) \/ Contains(s, <<"<", "/", "a", ">">>)

\* C15: for an e-mail target (plain address or mailto:) the result is the CV
\* sentence with the address, in both modes, and never holds link markup.
C15_EmailGivesCvSentence ==
  \A m \in BOOLEAN :
    (ap_result[m].called /\ IsEmailTarget(ap_link)) =>
      /\ ap_result[m].value = CV_SENTENCE \o EmailOf(ap_link)
      /\ ~HasLinkMarkup(ap_result[m].value)

\* the aggregator's job-detail path
OnJobDetailPath(target) ==
  \/ IncludesLower(Trim(target), <<"m", "y", "j", "o", "b", "m", "a", "g", ".", "c", "o", "m", "/", "j", "o", "b", "/">>)
  \/ EndsWithLower(Trim(target), <<"m", "y", "j", "o", "b", "m", "a", "g", ".", "c", "o", "m", "/", "j", "o", "b">>)

\* the row of the decision table that applies to a target
ApplyRule(target, sourceUrl) ==
  IF Trim(target) = <<>> THEN "empty"
  ELSE IF IsEmailTarget(target) THEN "email"
  ELSE IF OnJobDetailPath(target) \/ Trim(target) = sourceUrl THEN "listing"
  ELSE "external"

\* C16: the decision table, first matching rule first: empty target, e-mail
\* target, target on the job-detail path or equal to sourceUrl, external URL.
C16_DecisionTable ==
  \A m \in BOOLEAN :
    ap_result[m].called =>
      /\ ApplyRule(ap_link, ap_source) = "empty" => ap_result[m].value = <<>>
      /\ ApplyRule(ap_link, ap_source) = "email" =>
           ap_result[m].value = CV_SENTENCE \o EmailOf(ap_link)
      /\ ApplyRule(ap_link, ap_source) = "listing" =>
           /\ ap_result[m].value = LISTING_SENTENCE
           /\ ~HasLinkMarkup(ap_result[m].value)
      /\ (ApplyRule(ap_link, ap_source) = "external" /\ m) =>
           /\ HasLinkMarkup(ap_result[m].value)
           /\ Contains(ap_result[m].value, <<"A", "p", "p", "l", "y", " ", "N", "o", "w", "<", "/", "a", ">">>)
      /\ (ApplyRule(ap_link, ap_source) = "external" /\ ~m) =>
           ap_result[m].value =
             <<"I", "n", "t", "e", "r", "e", "s", "t", "e", "d", " ", "a", "n", "d", " ", "q", "u", "a", "l", "i", "f", "i", "e", "d", "?", " ", "A", "p", "p", "l", "y", " ", "N", "o", "w", ".", "\n">> \o Trim(ap_link)

-----------------------------------------------------------------------------
(* Properties of repeated calls and of getCharacterStatus *)

\* C17: two calls of splitIntoThread with the same argument return the same
\* output, at any two points of an execution: the result depends on the
\* argument only.
C17_SameArgumentSameOutput == pu_again => pu_second = st_result

StatusDone == cs_pc = "done"

\* C20: count is the length of the text, remaining is limit - count,
\* isOverLimit and needsThread are both count > limit, and threadCount is the
\* number of chunks of splitIntoThread(text) when needsThread and 1 otherwise.
C20_StatusOfText ==
  StatusDone =>
    /\ cs_status.count = Len(text)
    /\ cs_status.remaining = getXCharLimit - Len(text)
    /\ cs_status.isOverLimit = (Len(text) > getXCharLimit)
    /\ cs_status.needsThread = (Len(text) > getXCharLimit)
    /\ cs_status.needsThread => cs_status.threadCount = Len(splitIntoThread(text))
    /\ ~cs_status.needsThread => cs_status.threadCount = 1

\* C20's case: a text over the limit, whose thread has 3 chunks
C20_Witness ==
  /\ StatusDone
  /\ cs_status.needsThread
  /\ cs_status.threadCount = 3

-----------------------------------------------------------------------------
(* Properties of the message composers *)

ComposeDone == cm_pc = "done"

\* a composer is called for a job with an external apply URL and hashtags
ComposeCall ==
  /\ cm_pc = "call"
  /\ ApplyRule(cm_job.applyLink, <<>>) = "external"
  /\ cm_job.hashtags # <<>>

\* the header of the plain-text message
HeaderOf(j) ==
  IF Trim(j.company) = <<>> THEN j.title
  ELSE j.title \o <<" ", "a", "t", " ">> \o j.company

\* the space-joined '#tag' list
RECURSIVE TagList(_)
TagList(tags) ==
  IF tags = <<>> THEN <<>>
  ELSE IF Len(tags) = 1 THEN HashTag(tags[1])
  ELSE TagList(SubSeq(tags, 1, Len(tags) - 1)) \o <<" ">> \o HashTag(tags[Len(tags)])

\* the layout of the Twitter message
TwitterLayout ==
  /\ StartsWithAt(cm_message, HeaderOf(cm_job), 0)
  /\ HasHeading(Trim(cm_job.description)) =>
       /\ Len(matches) > 0
       /\ SectionsInOrder(cm_message, Sections(trimmed, UniqueMatches(matches)))
  /\ Contains(cm_message, Trim(cm_job.applyLink))
  /\ ~HasLinkMarkup(cm_message)
  /\ EndsWith(cm_message, TagList(cm_job.hashtags))

\* no hashtag of the job is in the Telegram message
TelegramLayout ==
  \A k \in 1..Len(cm_job.hashtags) : ~Contains(cm_message, HashTag(cm_job.hashtags[k]))

\* C18: for a job with an external apply URL and hashtags, formatTwitterMessage
\* returns a message that begins with the header, keeps the section labels of
\* the description in canonical order, holds the apply URL as plain text and
\* ends with the '#tag' list; formatTelegramMessage returns a message without
\* hashtag.
C18_ComposedLayout ==
  ComposeCall ~>
    (ComposeDone /\ (IF cm_channel = "twitter" THEN TwitterLayout ELSE TelegramLayout))

-----------------------------------------------------------------------------
(* Properties of the concise Twitter formatter *)

ConciseDone == cj_pc = "done"

\* the space reserved for what is not the description
Reserve ==
  Len(cj_parts.header) + Len(cj_parts.intro) + Len(cj_parts.applySection)
    + Len(cj_parts.hashtagStr) + 30

\* C19: the description of the concise Twitter message is at most
\* max(80, limit - reserve) characters long, reserve being the lengths of
\* header, intro, apply section and hashtag string plus 30; and whenever
\* reserve <= limit - 80 the whole message is at most limit characters long.
C19_DescriptionWithinBudget ==
  ConciseDone =>
    /\ cj_parts.reserved = Reserve
    /\ Len(cj_parts.description) <= Max2(80, getXCharLimit - Reserve)
    /\ Contains(cj_message, cj_parts.description)
    /\ Reserve <= getXCharLimit - 80 => Len(cj_message) <= getXCharLimit

\* a description that had to be cut, in a message with room for 80 characters
C19_Witness ==
  /\ ConciseDone
  /\ Reserve <= getXCharLimit - 80
  /\ Len(ensureAboutSection(pj_result, cj_job.company, cj_job.title)) > getXCharLimit - Reserve
  /\ Len(cj_parts.description) < Len(ensureAboutSection(pj_result, cj_job.company, cj_job.title))
  /\ Len(cj_message) <= getXCharLimit

-----------------------------------------------------------------------------
(* Properties of the auto-post handler *)

Platforms == {"twitter", "telegram"}

\* the jobs an invocation handed to a posting client
AttemptedBy(i) == {a[2] : a \in {x \in au_attempts : x[1] = i}}

\* C25: one invocation of handleAutoPost publishes at most 2 jobs, all of
\* them from today's pending set (still there, or moved from it to the posted
\* set by this invocation), and never a job whose title contains an excluded
\* keyword.
C25_AtMostTwoPendingNotExcluded ==
  \A i \in Invocations :
    /\ Cardinality(AttemptedBy(i)) <= 2
    /\ \A id \in AttemptedBy(i) :
         /\ id \in q_pending \cup q_posted
         /\ ~isJobExcluded(ScrapedJobs[id].title)
    /\ \A a \in au_published : a[1] = i => a[2] \in AttemptedBy(i)

\* an invocation published two jobs while a third job and the job of a cook
\* were pending too
C25_Witness ==
  /\ q_stored = JobIds
  /\ au_inv[1].response = "posted"
  /\ Cardinality({a[2] : a \in au_published}) = 2

\* C30: with dryRun=true handleAutoPost calls neither posting client nor
\* markAsPosted: no step of the invocation changes the pending set, the posted
\* set, the history or the calls of the clients.
C30_DryRunChangesNothing ==
  [][au_inv[1].dryRun => UNCHANGED <<q_pending, q_posted, q_history, au_attempts, au_published>>]_vars

\* a dry run answered with the preview of two jobs
C30_Witness ==
  /\ au_inv[1].dryRun
  /\ au_inv[1].response = "preview"
  /\ Len(au_inv[1].postable) = 2
  /\ au_attempts = {}
  /\ q_pending = q_stored

\* C23: a job that a platform accepted ends up marked as posted: in the posted
\* set, out of the pending set, in the history.
C23_PublishedJobIsMarked ==
  \A id \in JobIds :
    (\E p \in Platforms : <<1, id, p>> \in au_published)
      ~> (id \in q_posted /\ id \notin q_pending /\ id \in q_history)

\* C22: no job id is published to the same platform by more than one
\* invocation.
C22_PublishedOnce ==
  \A id \in JobIds, p \in Platforms :
    Cardinality({i \in Invocations : <<i, id, p>> \in au_published}) <= 1

-----------------------------------------------------------------------------
(* Properties of postToTwitter *)

\* the tweets postToTwitter asked the client to publish, accepted or not
IsTweet(c) == c.call = "tweet"

TweetCalls == SelectSeq(tw_api, IsTweet)

ThreadPath == tw.chunks # <<>>

\* C26: in a thread the chunks are sent in their order, every tweet after the
\* first replies to the tweet published immediately before it, the image goes
\* with the first tweet only, and on success tweetIds holds the id of one
\* tweet per chunk, in order.
C26_ThreadInOrder ==
  ThreadPath =>
    /\ Len(TweetCalls) <= Len(splitIntoThread(tw.message))
    /\ \A n \in 1..Len(TweetCalls) :
         /\ TweetCalls[n].text = splitIntoThread(tw.message)[n]
         /\ TweetCalls[n].reply = (IF n = 1 THEN Undefined ELSE Published[n - 1].id)
         /\ (TweetCalls[n].media # Undefined) <=> (n = 1 /\ tw.imageBase64)
    /\ ("success" \in DOMAIN tw_result /\ tw_result.success) =>
         /\ Len(tw_result.tweetIds) = Len(splitIntoThread(tw.message))
         /\ \A n \in 1..Len(tw_result.tweetIds) : tw_result.tweetIds[n] = Published[n].id

\* a thread of three tweets with an image was published
C26_Witness ==
  /\ tw.imageBase64
  /\ "success" \in DOMAIN tw_result
  /\ tw_result.success
  /\ Len(tw_result.tweetIds) = 3
  /\ Published[3].reply = Published[2].id

\* a call on the client failed
SomeCallFailed == \E n \in 1..Len(tw_api) : ~tw_api[n].ok

\* C27: postToTwitter never throws; when the upload or a tweet fails it
\* returns success = false with an error message and without tweetIds, also
\* after earlier chunks were published; it returns success = true only when
\* every chunk was published.
C27_NeverThrows ==
  /\ "thrown" \notin DOMAIN tw_result
  /\ tw.pc = "done" => "success" \in DOMAIN tw_result
  /\ SomeCallFailed =>
       /\ tw.pc = "done"
       /\ tw_result.success = FALSE
       /\ "error" \in DOMAIN tw_result
       /\ tw_result.error # ""
       /\ "tweetIds" \notin DOMAIN tw_result
  /\ ("success" \in DOMAIN tw_result /\ tw_result.success) =>
       /\ ~SomeCallFailed
       /\ Len(Published) = (IF ThreadPath THEN Len(splitIntoThread(tw.message)) ELSE 1)

\* the second tweet of a thread failed after the first was published
C27_Witness ==
  /\ Len(Published) = 1
  /\ Len(TweetCalls) = 2
  /\ tw.pc = "done"
  /\ tw_result.success = FALSE

-----------------------------------------------------------------------------
(* Properties of POST /api/post *)

\* C28: when validateJobData reports an error or the title is excluded, the
\* handler answers 400 with success = false and a list of messages, and calls
\* neither posting client.
C28_InvalidJobRejected ==
  (validateJobData(po.job).errors # <<>> \/ isJobExcluded(po.job.title)) =>
    /\ po_calls = <<>>
    /\ po.pc \in {"start", "done"}
    /\ po.pc = "done" =>
         /\ po_response.status = 400
         /\ po_response.success = FALSE
         /\ po_response.errors # <<>>

\* a request with an apply link without protocol, for both platforms, was
\* answered
C28_Witness ==
  /\ po.pc = "done"
  /\ po.platforms = {"twitter", "telegram"}
  /\ po_response.status = 400
  /\ Len(po_response.errors) = 1
  /\ Trim(po.job.title) # <<>>
  /\ ~isJobExcluded(po.job.title)

\* the calls the handler owes to a request: Twitter before Telegram, each once
OwedCalls(platforms) ==
  (IF "twitter" \in platforms THEN <<"twitter">> ELSE <<>>)
    \o (IF "telegram" \in platforms THEN <<"telegram">> ELSE <<>>)

\* C29: a valid job that is not excluded gets every requested platform
\* attempted exactly once, Twitter before Telegram, whatever Twitter answered,
\* and a response.
C29_EachPlatformAttempted ==
  (po.pc = "twitter") ~> (po.pc = "done" /\ po_calls = OwedCalls(po.platforms))

-----------------------------------------------------------------------------
(* Properties of the job queue *)

\* C24: after any sequence of addJobsForToday, markAsPosted and
\* clearPendingQueue calls run one at a time on one day, no job id is both in
\* today's pending set and in the posted set.
C24_PendingAndPostedDisjoint == q_pending \cap q_posted = {}

\* C24's case: addJobsForToday was called with an id that is posted and with
\* one that was not, while other ids are pending
C24_Witness ==
  /\ q_last.op = "addJobsForToday"
  /\ IdsOf(q_last.ids) \cap q_posted # {}
  /\ IdsOf(q_last.ids) \cap q_pending # {}
  /\ q_pending \ IdsOf(q_last.ids) # {}

====
